---- MODULE Spec2Model ----
(***************************************************************************)
(* flake8-docstrings-complete: the consistency checkers that compare a     *)
(* parsed docstring against the facts of a function or class definition.   *)
(*                                                                         *)
(* Python strings (parameter, exception, attribute and section names) are  *)
(* sequences of one-character strings, so that startswith, sorted and      *)
(* ",".join are computed the way Python computes them.  An Optional value  *)
(* is a sequence of length 0 (None) or 1 (the value).                      *)
(***************************************************************************)
EXTENDS Integers, Sequences, FiniteSets, TLC

VARIABLES
    docstr_info,          \* docstring.Docstring handed to the checker
    docstr_node,          \* position of the docstring constant
    args,                 \* ast.arguments of the function
    return_nodes,         \* VisitorWithinFunction.return_nodes
    yield_nodes,          \* VisitorWithinFunction.yield_nodes
    raise_nodes,          \* VisitorWithinFunction.raise_nodes
    class_assign_nodes,   \* VisitorWithinClass.class_assign_nodes
    method_assign_nodes,  \* VisitorWithinClass.method_assign_nodes
    problems,             \* the findings yielded so far, in order
    pc,                   \* "start", then the name of the checker that ran
    tree,                 \* Plugin._tree: the module handed to a run
    filename,             \* the filename handed to Plugin
    file_type,            \* Visitor._file_type
    todo,                 \* the nodes Visitor.visit has still to visit, first next
    docstr_value,         \* the docstring text handed to docstring.parse
    docstr_sections,      \* list(_get_sections(lines=value.splitlines()))
    previous              \* the results of the previous Plugin.run on the same tree, if any

run_vars == <<tree, filename, file_type, todo>>
parse_vars == <<docstr_value, docstr_sections>>
vars == <<docstr_info, docstr_node, args, return_nodes, yield_nodes, raise_nodes,
          class_assign_nodes, method_assign_nodes, problems, pc, run_vars, parse_vars,
          previous>>

(***************************************************************************)
(* Bounds of the enumerated inputs.                                        *)
(***************************************************************************)
MaxParams == 2
MaxSubs == 2
MaxSections == 2
MaxStmts == 2
MaxAssigns == 2

(***************************************************************************)
(* Python values and builtins.                                             *)
(***************************************************************************)
None == <<>>

\* The checkers are given their inputs directly: no module is being visited.
NoRun ==
    /\ tree = [type |-> "Module", body |-> <<>>]
    /\ filename = <<>>
    /\ file_type = "default"
    /\ todo = <<>>

\* No text is being parsed and no run came before.
NoParse ==
    /\ docstr_value = <<>>
    /\ docstr_sections = <<>>
    /\ previous = None

Ord ==
    ("," :> 44) @@ ("1" :> 49) @@ ("2" :> 50) @@ ("3" :> 51) @@ ("A" :> 65) @@
    ("E" :> 69) @@ ("P" :> 80) @@ ("R" :> 82) @@ ("Y" :> 89) @@ ("_" :> 95) @@
    ("a" :> 97) @@ ("b" :> 98) @@ ("c" :> 99) @@ ("d" :> 100) @@ ("e" :> 101) @@
    ("f" :> 102) @@ ("g" :> 103) @@ ("i" :> 105) @@ ("l" :> 108) @@
    ("m" :> 109) @@ ("n" :> 110) @@ ("r" :> 114) @@ ("s" :> 115) @@
    ("t" :> 116) @@ ("u" :> 117) @@ ("x" :> 120)

startswith(s, prefix) ==
    /\ Len(s) >= Len(prefix)
    /\ SubSeq(s, 1, Len(prefix)) = prefix

RECURSIVE str_lt(_, _)
str_lt(s, t) ==
    IF t = <<>> THEN FALSE
    ELSE IF s = <<>> THEN TRUE
    ELSE IF Ord[Head(s)] # Ord[Head(t)] THEN Ord[Head(s)] < Ord[Head(t)]
    ELSE str_lt(Tail(s), Tail(t))

RECURSIVE sorted(_)
sorted(S) ==
    IF S = {} THEN <<>>
    ELSE LET least == CHOOSE s \in S : \A t \in S \ {s} : str_lt(s, t)
         IN  <<least>> \o sorted(S \ {least})

RECURSIVE join(_, _)
join(sep, strs) ==
    IF strs = <<>> THEN <<>>
    ELSE IF Len(strs) = 1 THEN strs[1]
    ELSE strs[1] \o sep \o join(sep, Tail(strs))

set(seq) == {seq[i] : i \in DOMAIN seq}

(***************************************************************************)
(* types_.Problem and docstring.Docstring.                                 *)
(***************************************************************************)
Problem(lineno, col_offset, msg) ==
    [lineno |-> lineno, col_offset |-> col_offset, msg |-> msg]

Docstring(a, a_sections, t, t_sections, r_sections, y_sections, e, e_sections) ==
    [args |-> a, args_sections |-> a_sections,
     attrs |-> t, attrs_sections |-> t_sections,
     returns_sections |-> r_sections,
     yields_sections |-> y_sections,
     raises |-> e, raises_sections |-> e_sections]

(***************************************************************************)
(* args.py                                                                 *)
(***************************************************************************)
ARGS_SECTION_NOT_IN_DOCSTR_MSG == [code |-> "DCO020", arg |-> <<>>]
ARGS_SECTION_IN_DOCSTR_MSG == [code |-> "DCO021", arg |-> <<>>]
MULT_ARGS_SECTIONS_IN_DOCSTR_MSG(found) == [code |-> "DCO022", arg |-> found]
ARG_NOT_IN_DOCSTR_MSG(name) == [code |-> "DCO023", arg |-> name]
ARG_IN_DOCSTR_MSG(name) == [code |-> "DCO024", arg |-> name]

SKIP_ARGS == {<<"s", "e", "l", "f">>, <<"c", "l", "s">>}
UNUSED_ARGS_PREFIX == <<"_">>

_iter_args(a) ==
    SelectSeq(a.args, LAMBDA arg : arg.arg \notin SKIP_ARGS)
        \o SelectSeq(a.posonlyargs, LAMBDA arg : arg.arg \notin SKIP_ARGS)
        \o a.kwonlyargs
        \o a.vararg
        \o a.kwarg

at_docstr(d_node, msg) == Problem(d_node.lineno, d_node.col_offset, msg)

all_used_args_of(all_args) ==
    SelectSeq(all_args, LAMBDA arg : ~startswith(arg.arg, UNUSED_ARGS_PREFIX))

\* args.py 84-88: the section is required as soon as one argument is used
args_section_not_in_docstr_mut(d_info, d_node, all_used_args) ==
    IF all_used_args # <<>> /\ d_info.args = None
    THEN <<Problem(all_used_args[1].lineno, all_used_args[1].col_offset,
                   ARGS_SECTION_NOT_IN_DOCSTR_MSG)>>
    ELSE <<>>

args_section_not_in_docstr(d_info, d_node, all_used_args) ==
    IF all_used_args # <<>> /\ d_info.args = None
    THEN <<at_docstr(d_node, ARGS_SECTION_NOT_IN_DOCSTR_MSG)>>
    ELSE <<>>

\* args.py 105-110: used arguments that are not entries of the section
RECURSIVE args_not_in_docstr_mut(_, _)
args_not_in_docstr_mut(docstr_args, all_used_args) ==
    IF all_used_args = <<>> THEN <<>>
    ELSE LET arg == Head(all_used_args)
         IN  (IF arg.arg \notin docstr_args
              THEN <<Problem(arg.col_offset, arg.lineno, ARG_NOT_IN_DOCSTR_MSG(arg.arg))>>
              ELSE <<>>)
             \o args_not_in_docstr_mut(docstr_args, Tail(all_used_args))

RECURSIVE args_not_in_docstr(_, _)
args_not_in_docstr(docstr_args, all_used_args) ==
    IF all_used_args = <<>> THEN <<>>
    ELSE LET arg == Head(all_used_args)
         IN  (IF arg.arg \notin docstr_args
              THEN <<Problem(arg.lineno, arg.col_offset, ARG_NOT_IN_DOCSTR_MSG(arg.arg))>>
              ELSE <<>>)
             \o args_not_in_docstr(docstr_args, Tail(all_used_args))

\* args.py 112-117: entries of the section that are not arguments
args_in_docstr_mut(d_node, docstr_args, all_args) ==
    LET used == all_used_args_of(all_args)
        func_args == {used[i].arg : i \in DOMAIN used}
        unexpected == sorted(docstr_args \ func_args)
    IN  [i \in DOMAIN unexpected |-> at_docstr(d_node, ARG_IN_DOCSTR_MSG(unexpected[i]))]

args_in_docstr(d_node, docstr_args, all_args) ==
    LET func_args == {all_args[i].arg : i \in DOMAIN all_args}
        unexpected == sorted(docstr_args \ func_args)
    IN  [i \in DOMAIN unexpected |-> at_docstr(d_node, ARG_IN_DOCSTR_MSG(unexpected[i]))]

\* args.py 119-123: an empty section when no argument is used
args_section_empty_mut(d_info, d_node, all_used_args) ==
    IF all_used_args = <<>>
    THEN <<at_docstr(d_node, ARGS_SECTION_IN_DOCSTR_MSG)>>
    ELSE <<>>

args_section_empty(d_info, d_node, all_used_args) ==
    IF all_used_args = <<>> /\ Len(d_info.args[1]) = 0
    THEN <<at_docstr(d_node, ARGS_SECTION_IN_DOCSTR_MSG)>>
    ELSE <<>>

args_check(d_info, d_node, a) ==
    LET all_args == _iter_args(a)
        all_used_args == all_used_args_of(all_args)
    IN  args_section_not_in_docstr(d_info, d_node, all_used_args)
        \o
        (IF all_args = <<>> /\ d_info.args # None
         THEN <<at_docstr(d_node, ARGS_SECTION_IN_DOCSTR_MSG)>>
         ELSE IF all_args # <<>> /\ d_info.args # None
         THEN LET docstr_args == set(d_info.args[1])
              IN  (IF Len(d_info.args_sections) > 1
                   THEN <<at_docstr(d_node, MULT_ARGS_SECTIONS_IN_DOCSTR_MSG(
                              join(<<",">>, d_info.args_sections)))>>
                   ELSE <<>>)
                  \o args_not_in_docstr(docstr_args, all_used_args)
                  \o args_in_docstr(d_node, docstr_args, all_args)
                  \o args_section_empty(d_info, d_node, all_used_args)
         ELSE <<>>)

(***************************************************************************)
(* Inputs of the arguments checker: every signature of at most MaxParams   *)
(* parameters with distinct names, in source order (positional-only,       *)
(* positional, *vararg, keyword-only, **kwarg), each parameter at its own  *)
(* column of line 1; the docstring constant on line 2.                     *)
(***************************************************************************)
arg_1 == <<"a", "1">>
arg_2 == <<"a", "2">>
_arg_3 == <<"_", "a", "3">>
self == <<"s", "e", "l", "f">>
arg_x == <<"x">>
ParamNames == {arg_1, arg_2, _arg_3, self}
ArgEntryNames == {arg_1, _arg_3, arg_x}
ArgsHeaders == {<<"A", "r", "g", "s">>, <<"A", "r", "g", "u", "m", "e", "n", "t", "s">>}

KindRank == [posonlyargs |-> 1, args |-> 2, vararg |-> 3, kwonlyargs |-> 4, kwarg |-> 5]

Signatures ==
    UNION { { sig \in [1..n -> [name : ParamNames, kind : DOMAIN KindRank]] :
                /\ \A i, j \in 1..n : i < j =>
                      /\ sig[i].name # sig[j].name
                      /\ KindRank[sig[i].kind] <= KindRank[sig[j].kind]
                      /\ sig[i].kind = sig[j].kind
                            => sig[i].kind \notin {"vararg", "kwarg"} }
            : n \in 0..MaxParams }

arguments(sig) ==
    LET placed == [i \in DOMAIN sig |->
                      [kind |-> sig[i].kind,
                       node |-> [arg |-> sig[i].name, lineno |-> 1,
                                 col_offset |-> 4 + 4 * i]]]
        of(kind) == LET sel == SelectSeq(placed, LAMBDA e : e.kind = kind)
                    IN  [i \in DOMAIN sel |-> sel[i].node]
    IN  [posonlyargs |-> of("posonlyargs"), args |-> of("args"),
         vararg |-> of("vararg"), kwonlyargs |-> of("kwonlyargs"),
         kwarg |-> of("kwarg")]

\* What parse returns for one concern: no section (None, no header), or the
\* entries of the first matching section with the headers of all of them.
ParsedConcern(names, headers) ==
    {[primary |-> None, sections |-> <<>>]} \cup
    { [primary |-> <<subs>>, sections |-> found] :
        subs \in UNION {[1..n -> names] : n \in 0..MaxSubs},
        found \in UNION {[1..n -> headers] : n \in 1..MaxSections} }

DocstrNode == [lineno |-> 2, col_offset |-> 4]

InitArgs ==
    /\ \E sig \in Signatures : args = arguments(sig)
    /\ \E c \in ParsedConcern(ArgEntryNames, ArgsHeaders) :
          docstr_info = Docstring(c.primary, c.sections, None, <<>>, <<>>, <<>>, None, <<>>)
    /\ docstr_node = DocstrNode
    /\ return_nodes = <<>>
    /\ yield_nodes = <<>>
    /\ raise_nodes = <<>>
    /\ class_assign_nodes = <<>>
    /\ method_assign_nodes = <<>>
    /\ problems = <<>>
    /\ pc = "start"
    /\ NoRun
    /\ NoParse

CheckArgs ==
    /\ pc = "start"
    /\ problems' = problems \o args_check(docstr_info, docstr_node, args)
    /\ pc' = "args"
    /\ UNCHANGED <<docstr_info, docstr_node, args, return_nodes, yield_nodes,
                   raise_nodes, class_assign_nodes, method_assign_nodes, run_vars,
                   parse_vars, previous>>

NextArgs == CheckArgs

SpecArgs == InitArgs /\ [][NextArgs]_vars

(***************************************************************************)
(* Properties of the arguments checker, checked under SpecArgs.            *)
(***************************************************************************)
Parameters == _iter_args(args)
UsedParameters == SelectSeq(Parameters, LAMBDA p : p.arg[1] # "_")
ParameterNames == {Parameters[i].arg : i \in DOMAIN Parameters}
ArgsSectionPresent == docstr_info.args # None
ArgsEntries == IF ArgsSectionPresent THEN docstr_info.args[1] ELSE <<>>

Findings(code) == SelectSeq(problems, LAMBDA p : p.msg.code = code)
AtDocstring(code, arg) ==
    [lineno |-> docstr_node.lineno, col_offset |-> docstr_node.col_offset,
     msg |-> [code |-> code, arg |-> arg]]
AtNode(node, code, arg) ==
    [lineno |-> node.lineno, col_offset |-> node.col_offset,
     msg |-> [code |-> code, arg |-> arg]]
Count(seq, x) == Cardinality({i \in DOMAIN seq : seq[i] = x})

C2_ArgItemMissing ==
    (pc = "args" /\ Parameters # <<>> /\ ArgsSectionPresent)
        => LET undocumented ==
                   SelectSeq(UsedParameters, LAMBDA p : p.arg \notin set(ArgsEntries))
           IN  Findings("DCO023") =
                   [i \in DOMAIN undocumented |->
                       AtNode(undocumented[i], "DCO023", undocumented[i].arg)]

C2_Witness ==
    /\ pc = "args"
    /\ ArgsSectionPresent
    /\ Len(UsedParameters) = 2
    /\ \E i \in DOMAIN UsedParameters : UsedParameters[i].arg \in set(ArgsEntries)
    /\ Len(Findings("DCO023")) = 1

\* C3: with parameters and an arguments section, DCO024 is yielded once, at the
\* docstring, for each entry name that is no parameter (used or unused) and for
\* no other name.
C3_ArgItemUnexpected ==
    (pc = "args" /\ Parameters # <<>> /\ ArgsSectionPresent)
        => /\ \A i \in DOMAIN problems :
                 problems[i].msg.code = "DCO024"
                     => problems[i] = AtDocstring("DCO024", problems[i].msg.arg)
           /\ \A name \in ParamNames \cup ArgEntryNames :
                 Count(problems, AtDocstring("DCO024", name)) =
                     IF name \in set(ArgsEntries) /\ name \notin ParameterNames
                     THEN 1 ELSE 0

C3_Witness ==
    /\ pc = "args"
    /\ ArgsEntries = <<_arg_3, arg_x>>
    /\ _arg_3 \in ParameterNames
    /\ Findings("DCO024") = <<AtDocstring("DCO024", arg_x)>>

\* C4: DCO021 is yielded, once and at the docstring, exactly when (a) there is no
\* effective parameter and the section is present, or (b) there are parameters,
\* none used, and the section is present with zero entries.
C4_ArgsSectionUnexpected ==
    pc = "args"
        => Findings("DCO021") =
              IF \/ Parameters = <<>> /\ ArgsSectionPresent
                 \/ /\ Parameters # <<>>
                    /\ UsedParameters = <<>>
                    /\ ArgsSectionPresent
                    /\ ArgsEntries = <<>>
              THEN <<AtDocstring("DCO021", <<>>)>>
              ELSE <<>>

C4_Witness ==
    /\ pc = "args"
    /\ Parameters # <<>>
    /\ UsedParameters = <<>>
    /\ ArgsSectionPresent
    /\ ArgsEntries = <<>>
    /\ Findings("DCO021") = <<AtDocstring("DCO021", <<>>)>>

(***************************************************************************)
(* __init__.py: _check_returns and _check_yields.                          *)
(***************************************************************************)
RETURNS_SECTION_NOT_IN_DOCSTR_MSG == [code |-> "DCO030", arg |-> <<>>]
RETURNS_SECTION_IN_DOCSTR_MSG == [code |-> "DCO031", arg |-> <<>>]
MULT_RETURNS_SECTIONS_IN_DOCSTR_MSG(found) == [code |-> "DCO032", arg |-> found]
YIELDS_SECTION_NOT_IN_DOCSTR_MSG == [code |-> "DCO040", arg |-> <<>>]
YIELDS_SECTION_IN_DOCSTR_MSG == [code |-> "DCO041", arg |-> <<>>]
MULT_YIELDS_SECTIONS_IN_DOCSTR_MSG(found) == [code |-> "DCO042", arg |-> found]

\* docstr_info.returns and docstr_info.yields: whether the concern has a section
Docstring_returns(d_info) == d_info.returns_sections # <<>>
Docstring_yields(d_info) == d_info.yields_sections # <<>>

nodes_with_value_mut(nodes) == nodes

nodes_with_value(nodes) == SelectSeq(nodes, LAMBDA node : node.value # None)

section_not_in_docstr_mut(present, d_node, with_value, msg) ==
    IF with_value # <<>> /\ ~present
    THEN <<Problem(with_value[1].lineno, with_value[1].col_offset, msg)>>
    ELSE <<>>

\* __init__.py 293-298 and 330-335: one finding per statement with a value
section_not_in_docstr(present, d_node, with_value, msg) ==
    IF with_value # <<>> /\ ~present
    THEN [i \in DOMAIN with_value |->
             Problem(with_value[i].lineno, with_value[i].col_offset, msg)]
    ELSE <<>>

_check_returns(d_info, d_node, r_nodes) ==
    LET return_nodes_with_value == nodes_with_value(r_nodes)
    IN  section_not_in_docstr(Docstring_returns(d_info), d_node, return_nodes_with_value,
                              RETURNS_SECTION_NOT_IN_DOCSTR_MSG)
        \o (IF return_nodes_with_value # <<>> /\ Len(d_info.returns_sections) > 1
            THEN <<at_docstr(d_node, MULT_RETURNS_SECTIONS_IN_DOCSTR_MSG(
                       join(<<",">>, d_info.returns_sections)))>>
            ELSE <<>>)
        \o (IF return_nodes_with_value = <<>> /\ Docstring_returns(d_info)
            THEN <<at_docstr(d_node, RETURNS_SECTION_IN_DOCSTR_MSG)>>
            ELSE <<>>)

_check_yields(d_info, d_node, y_nodes) ==
    LET yield_nodes_with_value == nodes_with_value(y_nodes)
    IN  section_not_in_docstr(Docstring_yields(d_info), d_node, yield_nodes_with_value,
                              YIELDS_SECTION_NOT_IN_DOCSTR_MSG)
        \o (IF yield_nodes_with_value # <<>> /\ Len(d_info.yields_sections) > 1
            THEN <<at_docstr(d_node, MULT_YIELDS_SECTIONS_IN_DOCSTR_MSG(
                       join(<<",">>, d_info.yields_sections)))>>
            ELSE <<>>)
        \o (IF yield_nodes_with_value = <<>> /\ Docstring_yields(d_info)
            THEN <<at_docstr(d_node, YIELDS_SECTION_IN_DOCSTR_MSG)>>
            ELSE <<>>)

(***************************************************************************)
(* Inputs of the returns and yields checkers: up to MaxStmts return        *)
(* statements (bare, or with the constant None as value) and up to         *)
(* MaxStmts yield expressions (bare yield, yield with a value, yield       *)
(* from), statement i on line 2 + i, and the headers parse found for the   *)
(* two concerns.                                                           *)
(***************************************************************************)
ConstantNone == [type |-> "Constant", value |-> "None"]
NameValue == [type |-> "Name", id |-> <<"x">>]
ReturnForms == {[type |-> "Return", value |-> None],
                [type |-> "Return", value |-> <<ConstantNone>>]}
YieldForms == {[type |-> "Yield", value |-> None],
               [type |-> "Yield", value |-> <<NameValue>>],
               [type |-> "YieldFrom", value |-> <<NameValue>>]}
ReturnsHeaders == {<<"R", "e", "t", "u", "r", "n", "s">>, <<"R", "e", "t", "u", "r", "n">>}
YieldsHeaders == {<<"Y", "i", "e", "l", "d", "s">>, <<"Y", "i", "e", "l", "d">>}

Statements(forms) ==
    UNION { { [i \in 1..n |-> [type |-> body[i].type, value |-> body[i].value,
                               lineno |-> 2 + i, col_offset |-> 4]] :
                body \in [1..n -> forms] }
            : n \in 0..MaxStmts }

SectionHeaders(headers) == UNION {[1..n -> headers] : n \in 0..MaxSections}

InitReturns ==
    /\ return_nodes \in Statements(ReturnForms)
    /\ yield_nodes \in Statements(YieldForms)
    /\ \E r_sections \in SectionHeaders(ReturnsHeaders),
          y_sections \in SectionHeaders(YieldsHeaders) :
          docstr_info = Docstring(None, <<>>, None, <<>>, r_sections, y_sections, None, <<>>)
    /\ docstr_node = DocstrNode
    /\ args = arguments(<<>>)
    /\ raise_nodes = <<>>
    /\ class_assign_nodes = <<>>
    /\ method_assign_nodes = <<>>
    /\ problems = <<>>
    /\ pc = "start"
    /\ NoRun
    /\ NoParse

CheckReturns ==
    /\ pc = "start"
    /\ problems' = problems \o _check_returns(docstr_info, docstr_node, return_nodes)
    /\ pc' = "returns"
    /\ UNCHANGED <<docstr_info, docstr_node, args, return_nodes, yield_nodes,
                   raise_nodes, class_assign_nodes, method_assign_nodes, run_vars,
                   parse_vars, previous>>

CheckYields ==
    /\ pc = "start"
    /\ problems' = problems \o _check_yields(docstr_info, docstr_node, yield_nodes)
    /\ pc' = "yields"
    /\ UNCHANGED <<docstr_info, docstr_node, args, return_nodes, yield_nodes,
                   raise_nodes, class_assign_nodes, method_assign_nodes, run_vars,
                   parse_vars, previous>>

NextReturns == CheckReturns \/ CheckYields

SpecReturns == InitReturns /\ [][NextReturns]_vars

(***************************************************************************)
(* Properties of the returns and yields checkers, checked under            *)
(* SpecReturns.                                                            *)
(***************************************************************************)
ValuedReturns == SelectSeq(return_nodes, LAMBDA n : Len(n.value) = 1)
ValuedYields == SelectSeq(yield_nodes, LAMBDA n : Len(n.value) = 1)
NoReturnsSection == docstr_info.returns_sections = <<>>
NoYieldsSection == docstr_info.yields_sections = <<>>

\* C5: with n >= 1 value-carrying returns (yields) and no returns (yields)
\* section, the checker yields exactly n section-missing findings, one at each
\* value-carrying statement's own position, in statement order.
C5_SectionMissingPerStatement ==
    /\ (pc = "returns" /\ ValuedReturns # <<>> /\ NoReturnsSection)
          => problems = [i \in DOMAIN ValuedReturns |->
                            AtNode(ValuedReturns[i], "DCO030", <<>>)]
    /\ (pc = "yields" /\ ValuedYields # <<>> /\ NoYieldsSection)
          => problems = [i \in DOMAIN ValuedYields |->
                            AtNode(ValuedYields[i], "DCO040", <<>>)]

C5_Witness ==
    /\ pc = "yields"
    /\ NoYieldsSection
    /\ Len(yield_nodes) = 2
    /\ yield_nodes[1].value = None
    /\ yield_nodes[2].type = "YieldFrom"
    /\ problems = <<AtNode(yield_nodes[2], "DCO040", <<>>)>>

\* C6: when no return (yield) carries a value there is no finding without the
\* section and exactly one section-unexpected finding, at the docstring, with
\* it; `return None` carries a value and is reported when the section is absent.
C6_BareStatementsNotDocumentable ==
    /\ (pc = "returns" /\ ValuedReturns = <<>>)
          => problems = IF NoReturnsSection THEN <<>>
                        ELSE <<AtDocstring("DCO031", <<>>)>>
    /\ (pc = "yields" /\ ValuedYields = <<>>)
          => problems = IF NoYieldsSection THEN <<>>
                        ELSE <<AtDocstring("DCO041", <<>>)>>
    /\ (pc = "returns" /\ NoReturnsSection)
          => \A i \in DOMAIN return_nodes :
                return_nodes[i].value = <<ConstantNone>>
                    => Count(problems, AtNode(return_nodes[i], "DCO030", <<>>)) = 1

C6_Witness ==
    /\ pc = "returns"
    /\ Len(return_nodes) = 2
    /\ ValuedReturns = <<>>
    /\ Len(docstr_info.returns_sections) = 2
    /\ problems = <<AtDocstring("DCO031", <<>>)>>

(***************************************************************************)
(* raises.py                                                               *)
(***************************************************************************)
RAISES_SECTION_NOT_IN_DOCSTR_MSG == [code |-> "DCO050", arg |-> <<>>]
RAISES_SECTION_IN_DOCSTR_MSG == [code |-> "DCO051", arg |-> <<>>]
MULT_RAISES_SECTIONS_IN_DOCSTR_MSG(found) == [code |-> "DCO052", arg |-> found]
EXC_NOT_IN_DOCSTR_MSG(name) == [code |-> "DCO053", arg |-> name]
EXC_IN_DOCSTR_MSG(name) == [code |-> "DCO054", arg |-> name]
RE_RAISE_NO_EXC_IN_DOCSTR_MSG == [code |-> "DCO055", arg |-> <<>>]

Node(name, lineno, col_offset) ==
    [name |-> name, lineno |-> lineno, col_offset |-> col_offset]

_get_exc_node_mut(node) ==
    IF node.exc = None THEN None
    ELSE LET exc == node.exc[1]
         IN  IF exc.type = "Name" THEN <<Node(exc.id, exc.lineno, exc.col_offset)>>
             ELSE IF exc.type = "Attribute"
             THEN <<Node(exc.value.id, exc.lineno, exc.col_offset)>>
             ELSE IF exc.type = "Call"
             THEN IF exc.func.type = "Name"
                  THEN <<Node(exc.func.id, exc.func.lineno, exc.func.col_offset)>>
                  ELSE IF exc.func.type = "Attribute"
                  THEN <<Node(exc.func.value.id, exc.func.lineno, exc.func.col_offset)>>
                  ELSE None
             ELSE None

_get_exc_node(node) ==
    IF node.exc = None THEN None
    ELSE LET exc == node.exc[1]
         IN  IF exc.type = "Name" THEN <<Node(exc.id, exc.lineno, exc.col_offset)>>
             ELSE IF exc.type = "Attribute"
             THEN <<Node(exc.attr, exc.lineno, exc.col_offset)>>
             ELSE IF exc.type = "Call"
             THEN IF exc.func.type = "Name"
                  THEN <<Node(exc.func.id, exc.func.lineno, exc.func.col_offset)>>
                  ELSE IF exc.func.type = "Attribute"
                  THEN <<Node(exc.func.attr, exc.func.lineno, exc.func.col_offset)>>
                  ELSE None
             ELSE None

has_raise_no_value_mut(all_excs) == FALSE

has_raise_no_value(all_excs) == \E i \in DOMAIN all_excs : all_excs[i] = None

all_raise_no_value_mut(all_excs) == has_raise_no_value(all_excs)

all_raise_no_value(all_excs) == \A i \in DOMAIN all_excs : all_excs[i] = None

\* raises.py 129-135: raised exceptions that are not entries of the section
RECURSIVE exc_not_in_docstr(_, _)
exc_not_in_docstr(docstr_raises, all_excs) ==
    IF all_excs = <<>> THEN <<>>
    ELSE LET exc == Head(all_excs)
         IN  (IF exc # None /\ exc[1].name \notin docstr_raises
              THEN <<Problem(exc[1].lineno, exc[1].col_offset,
                             EXC_NOT_IN_DOCSTR_MSG(exc[1].name))>>
              ELSE <<>>)
             \o exc_not_in_docstr(docstr_raises, Tail(all_excs))

exc_in_docstr_mut(d_node, docstr_raises, all_excs) ==
    LET func_exc == {all_excs[i][1].name : i \in {j \in DOMAIN all_excs : all_excs[j] # None}}
        unexpected == sorted(docstr_raises \ func_exc)
    IN  [i \in DOMAIN unexpected |-> at_docstr(d_node, EXC_IN_DOCSTR_MSG(unexpected[i]))]

\* raises.py 137-144: entries that are not raised, unless a raise has no name
exc_in_docstr(d_node, docstr_raises, all_excs) ==
    IF ~has_raise_no_value(all_excs)
    THEN LET func_exc == {all_excs[i][1].name :
                             i \in {j \in DOMAIN all_excs : all_excs[j] # None}}
             unexpected == sorted(docstr_raises \ func_exc)
         IN  [i \in DOMAIN unexpected |->
                 at_docstr(d_node, EXC_IN_DOCSTR_MSG(unexpected[i]))]
    ELSE <<>>

raises_check(d_info, d_node, r_nodes) ==
    LET all_excs == [i \in DOMAIN r_nodes |-> _get_exc_node(r_nodes[i])]
    IN  (IF all_excs # <<>> /\ d_info.raises = None
         THEN <<at_docstr(d_node, RAISES_SECTION_NOT_IN_DOCSTR_MSG)>>
         ELSE <<>>)
        \o
        (IF all_excs = <<>> /\ d_info.raises # None
         THEN <<at_docstr(d_node, RAISES_SECTION_IN_DOCSTR_MSG)>>
         ELSE <<>>)
        \o
        (IF /\ all_excs # <<>> /\ all_raise_no_value(all_excs)
            /\ (d_info.raises = None \/ Len(d_info.raises[1]) = 0)
         THEN <<at_docstr(d_node, RE_RAISE_NO_EXC_IN_DOCSTR_MSG)>>
         ELSE IF all_excs # <<>> /\ d_info.raises # None
         THEN LET docstr_raises == set(d_info.raises[1])
              IN  (IF Len(d_info.raises_sections) > 1
                   THEN <<at_docstr(d_node, MULT_RAISES_SECTIONS_IN_DOCSTR_MSG(
                              join(<<",">>, d_info.raises_sections)))>>
                   ELSE <<>>)
                  \o exc_not_in_docstr(docstr_raises, all_excs)
                  \o exc_in_docstr(d_node, docstr_raises, all_excs)
         ELSE <<>>)

(***************************************************************************)
(* Inputs of the raises checker: up to MaxStmts raise statements, statement *)
(* i on line 2 + i at column 4 with its operand at column 10: a bare        *)
(* re-raise, a name, a dotted attribute, a call of either, a call of a      *)
(* lambda, or a subscript.                                                  *)
(***************************************************************************)
Exc1 == <<"E", "x", "c", "1">>
Exc2 == <<"E", "x", "c", "2">>
Exc3 == <<"E", "x", "c", "3">>
module == <<"m">>
ExcEntryNames == {Exc1, Exc2, Exc3}
RaisesHeaders == {<<"R", "a", "i", "s", "e", "s">>, <<"R", "a", "i", "s", "e">>}

Name(id, lineno) == [type |-> "Name", id |-> id, lineno |-> lineno, col_offset |-> 10]
Attribute(attr, lineno) ==
    [type |-> "Attribute", value |-> Name(module, lineno), attr |-> attr,
     lineno |-> lineno, col_offset |-> 10]
Call(func, lineno) == [type |-> "Call", func |-> func, lineno |-> lineno, col_offset |-> 10]
Lambda(lineno) == [type |-> "Lambda", lineno |-> lineno, col_offset |-> 11]
Subscript(lineno) ==
    [type |-> "Subscript", value |-> Name(module, lineno), lineno |-> lineno,
     col_offset |-> 10]

RaiseOperands(lineno) ==
    {None, <<Name(Exc1, lineno)>>, <<Name(Exc2, lineno)>>, <<Attribute(Exc2, lineno)>>,
     <<Call(Name(Exc1, lineno), lineno)>>, <<Call(Attribute(Exc2, lineno), lineno)>>,
     <<Call(Lambda(lineno), lineno)>>, <<Subscript(lineno)>>}

RaiseStatement(i) ==
    {[type |-> "Raise", exc |-> exc, lineno |-> 2 + i, col_offset |-> 4] :
        exc \in RaiseOperands(2 + i)}

RaiseStatements ==
    UNION { { body \in [1..n -> UNION {RaiseStatement(i) : i \in 1..n}] :
                \A i \in 1..n : body[i] \in RaiseStatement(i) }
            : n \in 0..MaxStmts }

InitRaises ==
    /\ raise_nodes \in RaiseStatements
    /\ \E c \in ParsedConcern(ExcEntryNames, RaisesHeaders) :
          docstr_info = Docstring(None, <<>>, None, <<>>, <<>>, <<>>, c.primary, c.sections)
    /\ docstr_node = DocstrNode
    /\ args = arguments(<<>>)
    /\ return_nodes = <<>>
    /\ yield_nodes = <<>>
    /\ class_assign_nodes = <<>>
    /\ method_assign_nodes = <<>>
    /\ problems = <<>>
    /\ pc = "start"
    /\ NoRun
    /\ NoParse

CheckRaises ==
    /\ pc = "start"
    /\ problems' = problems \o raises_check(docstr_info, docstr_node, raise_nodes)
    /\ pc' = "raises"
    /\ UNCHANGED <<docstr_info, docstr_node, args, return_nodes, yield_nodes,
                   raise_nodes, class_assign_nodes, method_assign_nodes, run_vars,
                   parse_vars, previous>>

NextRaises == CheckRaises

SpecRaises == InitRaises /\ [][NextRaises]_vars

(***************************************************************************)
(* Properties of the raises checker, checked under SpecRaises.             *)
(***************************************************************************)
RaisesSectionPresent == docstr_info.raises # None
RaisesEntries == IF RaisesSectionPresent THEN docstr_info.raises[1] ELSE <<>>
IsBareReRaise(node) == node.exc = None

\* The exception a raise statement names, as a sequence of length 0 or 1: the
\* name for `raise Name`, the final attribute for `raise module.Attr`, the
\* called name or attribute for a call of either; nothing for any other raise.
NamedException(node) ==
    IF IsBareReRaise(node) THEN <<>>
    ELSE LET exc == node.exc[1]
             named == IF exc.type = "Call" THEN exc.func ELSE exc
         IN  IF named.type = "Name"
             THEN <<[name |-> named.id, lineno |-> named.lineno,
                     col_offset |-> named.col_offset]>>
             ELSE IF named.type = "Attribute"
             THEN <<[name |-> named.attr, lineno |-> named.lineno,
                     col_offset |-> named.col_offset]>>
             ELSE <<>>
NamesNoException(node) == NamedException(node) = <<>>
RaisedNames ==
    {NamedException(raise_nodes[i])[1].name :
        i \in {j \in DOMAIN raise_nodes : ~NamesNoException(raise_nodes[j])}}

\* The statement of C7 and of C9 about a set of raises that count as re-raises.
ReRaiseRule(is_re_raise(_), named_section_result) ==
    LET all_re_raise == /\ raise_nodes # <<>>
                        /\ \A i \in DOMAIN raise_nodes : is_re_raise(raise_nodes[i])
    IN  pc = "raises" =>
          /\ Findings("DCO055") # <<>>
                <=> (all_re_raise /\ (~RaisesSectionPresent \/ RaisesEntries = <<>>))
          /\ \A i \in DOMAIN problems :
                problems[i].msg.code = "DCO055"
                    => problems[i] = AtDocstring("DCO055", <<>>)
          /\ (all_re_raise /\ ~RaisesSectionPresent)
                => problems = <<AtDocstring("DCO050", <<>>), AtDocstring("DCO055", <<>>)>>
          /\ (all_re_raise /\ RaisesSectionPresent /\ RaisesEntries = <<>>)
                => problems = <<AtDocstring("DCO055", <<>>)>>
          /\ (all_re_raise /\ RaisesEntries # <<>>)
                => problems = named_section_result

UnexpectedRule(is_re_raise(_)) ==
    (pc = "raises" /\ raise_nodes # <<>> /\ RaisesSectionPresent)
        => /\ \A i \in DOMAIN problems :
                 problems[i].msg.code = "DCO054"
                     => problems[i] = AtDocstring("DCO054", problems[i].msg.arg)
           /\ \A name \in ExcEntryNames :
                 (name \in set(RaisesEntries) /\ name \notin RaisedNames)
                     => Count(problems, AtDocstring("DCO054", name)) =
                           IF \E i \in DOMAIN raise_nodes : is_re_raise(raise_nodes[i])
                           THEN 0 ELSE 1

\* C7 as claimed: DCO055 exactly when every raise is a bare re-raise and the
\* section is absent or empty; no finding at all when the section names an
\* exception.
C7_AsClaimed == ReRaiseRule(IsBareReRaise, <<>>)

\* C7 as amended: DCO055 is yielded, at the docstring, exactly when there is a
\* raise, every raise is a bare re-raise or has an operand that names no
\* exception, and the section is absent or has zero entries; the result is
\* DCO050 then DCO055 without the section, DCO055 alone with an empty section,
\* and with a section that names an exception nothing but DCO052 when more
\* than one raises header matched.
C7_ReRaiseWithoutNamedException ==
    ReRaiseRule(NamesNoException,
                IF Len(docstr_info.raises_sections) > 1
                THEN <<AtDocstring("DCO052", join(<<",">>, docstr_info.raises_sections))>>
                ELSE <<>>)

C7_Witness ==
    /\ pc = "raises"
    /\ Len(raise_nodes) = 2
    /\ IsBareReRaise(raise_nodes[1])
    /\ IsBareReRaise(raise_nodes[2])
    /\ ~RaisesSectionPresent
    /\ problems = <<AtDocstring("DCO050", <<>>), AtDocstring("DCO055", <<>>)>>

\* C8: with a raise and a raises section, the DCO053 findings are exactly one
\* per raise statement whose named exception is not an entry, in statement
\* order, each at the position of the name (or called name) raised.
C8_ExcItemMissing ==
    (pc = "raises" /\ raise_nodes # <<>> /\ RaisesSectionPresent)
        => LET undocumented ==
                   SelectSeq(raise_nodes,
                             LAMBDA n : /\ ~NamesNoException(n)
                                        /\ NamedException(n)[1].name \notin set(RaisesEntries))
           IN  Findings("DCO053") =
                   [i \in DOMAIN undocumented |->
                       AtNode(NamedException(undocumented[i])[1], "DCO053",
                              NamedException(undocumented[i])[1].name)]

C8_Witness ==
    /\ pc = "raises"
    /\ RaisesEntries = <<Exc1>>
    /\ Len(raise_nodes) = 2
    /\ raise_nodes[1].exc = <<Call(Name(Exc1, 3), 3)>>
    /\ raise_nodes[2].exc = <<Attribute(Exc2, 4)>>
    /\ problems = <<[lineno |-> 4, col_offset |-> 10,
                     msg |-> [code |-> "DCO053", arg |-> Exc2]]>>

\* C9 as claimed: an entry matching no raised name yields DCO054 if and only
\* if the function contains no bare re-raise.
C9_AsClaimed == UnexpectedRule(IsBareReRaise)

\* C9 as amended: with a raise and a raises section, an entry matching no
\* raised name yields DCO054 (once, at the docstring) if and only if no raise
\* of the function is a bare re-raise or has an operand that names no
\* exception; one such raise suppresses DCO054 for every entry.
C9_ExcItemUnexpected == UnexpectedRule(NamesNoException)

C9_Witness ==
    /\ pc = "raises"
    /\ Len(raise_nodes) = 2
    /\ raise_nodes[1].exc = <<Name(Exc1, 3)>>
    /\ IsBareReRaise(raise_nodes[2])
    /\ RaisesEntries = <<Exc3, Exc1>>
    /\ problems = <<>>

(***************************************************************************)
(* attrs.py: the attributes section checks.                                *)
(***************************************************************************)
ATTRS_SECTION_NOT_IN_DOCSTR_MSG == [code |-> "DCO060", arg |-> <<>>]
ATTRS_SECTION_IN_DOCSTR_MSG == [code |-> "DCO061", arg |-> <<>>]
MULT_ATTRS_SECTIONS_IN_DOCSTR_MSG(found) == [code |-> "DCO062", arg |-> found]
ATTR_NOT_IN_DOCSTR_MSG(name) == [code |-> "DCO063", arg |-> name]
ATTR_IN_DOCSTR_MSG(name) == [code |-> "DCO064", arg |-> name]
DUPLICATE_ATTR_MSG(name) == [code |-> "DCO065", arg |-> name]

cls == <<"c", "l", "s">>
CLASS_SELF_CLS == {self, cls}
PRIVATE_ATTR_PREFIX == <<"_">>

\* Optional[ast.Name]: None for a target that is neither a name nor a chain of
\* attributes rooted in a name (a tuple, list, starred or subscript target).
RECURSIVE _get_class_target_name(_)
_get_class_target_name(target) ==
    IF target.type = "Name" THEN <<target>>
    ELSE IF target.type = "Attribute"
    THEN IF target.value.type = "Name" THEN <<target.value>>
         ELSE IF target.value.type = "Attribute"
         THEN _get_class_target_name(target.value)
         ELSE None
    ELSE None

\* filter(None, (_get_class_target_name(target) for target in node.targets))
RECURSIVE target_names(_)
target_names(targets) ==
    IF targets = <<>> THEN <<>>
    ELSE _get_class_target_name(Head(targets)) \o target_names(Tail(targets))

class_target_node(name) == Node(name.id, name.lineno, name.col_offset)

RECURSIVE _iter_class_attrs(_)
_iter_class_attrs(nodes) ==
    IF nodes = <<>> THEN <<>>
    ELSE LET node == Head(nodes)
             names ==
                 IF node.type = "Assign" THEN target_names(node.targets)
                 ELSE _get_class_target_name(node.target)
         IN  (IF node.type = "Node"
              THEN <<Node(node.name, node.lineno, node.col_offset)>>
              ELSE [i \in DOMAIN names |-> class_target_node(names[i])])
             \o _iter_class_attrs(Tail(nodes))

RECURSIVE _get_method_target_node(_)
_get_method_target_node(target) ==
    IF target.type = "Attribute"
    THEN IF target.value.type = "Name" /\ target.value.id \in CLASS_SELF_CLS
         THEN <<Node(target.attr, target.lineno, target.col_offset)>>
         ELSE IF target.value.type = "Attribute"
         THEN _get_method_target_node(target.value)
         ELSE None
    ELSE None

\* filter(None, (_get_method_target_node(target) for target in node.targets))
RECURSIVE target_nodes(_)
target_nodes(targets) ==
    IF targets = <<>> THEN <<>>
    ELSE _get_method_target_node(Head(targets)) \o target_nodes(Tail(targets))

RECURSIVE _iter_method_attrs(_)
_iter_method_attrs(nodes) ==
    IF nodes = <<>> THEN <<>>
    ELSE LET node == Head(nodes)
         IN  (IF node.type = "Assign"
              THEN target_nodes(node.targets)
              ELSE _get_method_target_node(node.target))
             \o _iter_method_attrs(Tail(nodes))

all_public_class_targets(all_class_targets) ==
    SelectSeq(all_class_targets, LAMBDA target : ~startswith(target.name, PRIVATE_ATTR_PREFIX))

attr_not_in_docstr(docstr_attrs, public_class_targets) ==
    LET missing == SelectSeq(public_class_targets, LAMBDA target : target.name \notin docstr_attrs)
    IN  [i \in DOMAIN missing |->
            Problem(missing[i].lineno, missing[i].col_offset,
                    ATTR_NOT_IN_DOCSTR_MSG(missing[i].name))]

attr_in_docstr(d_node, docstr_attrs, all_targets) ==
    LET class_attrs == {all_targets[i].name : i \in DOMAIN all_targets}
        unexpected == sorted(docstr_attrs \ class_attrs)
    IN  [i \in DOMAIN unexpected |-> at_docstr(d_node, ATTR_IN_DOCSTR_MSG(unexpected[i]))]

\* The keys of Counter(attrs), in the order of their first occurrence.
RECURSIVE Counter_keys(_, _)
Counter_keys(attrs, seen) ==
    IF attrs = <<>> THEN <<>>
    ELSE IF Head(attrs) \in seen THEN Counter_keys(Tail(attrs), seen)
    ELSE <<Head(attrs)>> \o Counter_keys(Tail(attrs), seen \cup {Head(attrs)})

attr_occurrences(attrs, attr) == Cardinality({i \in DOMAIN attrs : attrs[i] = attr})

duplicate_attrs(d_node, attrs) ==
    LET repeated == SelectSeq(Counter_keys(attrs, {}),
                              LAMBDA attr : attr_occurrences(attrs, attr) > 1)
    IN  [i \in DOMAIN repeated |-> at_docstr(d_node, DUPLICATE_ATTR_MSG(repeated[i]))]

attrs_check(d_info, d_node, c_nodes, m_nodes) ==
    LET all_class_targets == _iter_class_attrs(c_nodes)
        public_class_targets == all_public_class_targets(all_class_targets)
        all_targets == all_class_targets \o _iter_method_attrs(m_nodes)
    IN  (IF public_class_targets # <<>> /\ d_info.attrs = None
         THEN <<at_docstr(d_node, ATTRS_SECTION_NOT_IN_DOCSTR_MSG)>>
         ELSE <<>>)
        \o
        (IF all_targets = <<>> /\ d_info.attrs # None
         THEN <<at_docstr(d_node, ATTRS_SECTION_IN_DOCSTR_MSG)>>
         ELSE <<>>)
        \o
        (IF all_targets # <<>> /\ d_info.attrs # None
         THEN LET docstr_attrs == set(d_info.attrs[1])
              IN  (IF Len(d_info.attrs_sections) > 1
                   THEN <<at_docstr(d_node, MULT_ATTRS_SECTIONS_IN_DOCSTR_MSG(
                              join(<<",">>, d_info.attrs_sections)))>>
                   ELSE <<>>)
                  \o attr_not_in_docstr(docstr_attrs, public_class_targets)
                  \o attr_in_docstr(d_node, docstr_attrs, all_targets)
                  \o duplicate_attrs(d_node, d_info.attrs[1])
                  \o (IF public_class_targets = <<>> /\ Len(d_info.attrs[1]) = 0
                      THEN <<at_docstr(d_node, ATTRS_SECTION_IN_DOCSTR_MSG)>>
                      ELSE <<>>)
         ELSE <<>>)

(***************************************************************************)
(* Inputs of the attrs checker: a class whose docstring is on line 2, with  *)
(* up to MaxAssigns recorded nodes in all.  Class-body node i is on line    *)
(* 2 + i at column 4, the node of method bodies i on line 10 + i at column  *)
(* 8.  Targets are names, dotted attributes, a subscript and an unpacking   *)
(* tuple; a property-style method is recorded as a types_.Node.             *)
(***************************************************************************)
attr_1 == <<"b", "1">>
attr_2 == <<"b", "2">>
_attr_3 == <<"_", "b", "3">>
attr_x == <<"c">>
AttrEntryNames == {attr_1, _attr_3, attr_x}
AttrsHeaders == {<<"A", "t", "t", "r", "s">>, <<"A", "t", "t", "r", "i", "b", "u", "t", "e", "s">>}

NameAt(id, lineno, col_offset) ==
    [type |-> "Name", id |-> id, lineno |-> lineno, col_offset |-> col_offset]
AttributeOf(value, attr) ==
    [type |-> "Attribute", value |-> value, attr |-> attr,
     lineno |-> value.lineno, col_offset |-> value.col_offset]
SubscriptOf(value) ==
    [type |-> "Subscript", value |-> value,
     lineno |-> value.lineno, col_offset |-> value.col_offset]
Tuple(elts) ==
    [type |-> "Tuple", elts |-> elts,
     lineno |-> elts[1].lineno, col_offset |-> elts[1].col_offset]

Assign(targets) ==
    [type |-> "Assign", targets |-> targets,
     lineno |-> targets[1].lineno, col_offset |-> targets[1].col_offset]
AnnAssign(target) ==
    [type |-> "AnnAssign", target |-> target,
     lineno |-> target.lineno, col_offset |-> target.col_offset]
AugAssign(target) ==
    [type |-> "AugAssign", target |-> target,
     lineno |-> target.lineno, col_offset |-> target.col_offset]
PropertyNode(name, lineno) ==
    [type |-> "Node", name |-> name, lineno |-> lineno, col_offset |-> 4]

ClassBodyNodes(l) ==
    {Assign(<<NameAt(attr_1, l, 4)>>),
     Assign(<<NameAt(_attr_3, l, 4)>>),
     Assign(<<NameAt(attr_1, l, 4), NameAt(attr_2, l, 9)>>),
     AnnAssign(NameAt(attr_2, l, 4)),
     AugAssign(AttributeOf(NameAt(attr_1, l, 4), attr_x)),
     Assign(<<AttributeOf(AttributeOf(NameAt(_attr_3, l, 4), attr_x), attr_x)>>),
     Assign(<<SubscriptOf(NameAt(module, l, 4))>>),
     Assign(<<Tuple(<<NameAt(attr_1, l, 4), NameAt(attr_2, l, 8)>>)>>),
     PropertyNode(attr_1, l),
     PropertyNode(_attr_3, l)}

MethodBodyNodes(l) ==
    {Assign(<<AttributeOf(NameAt(self, l, 8), attr_1)>>),
     AnnAssign(AttributeOf(NameAt(cls, l, 8), attr_2)),
     AugAssign(AttributeOf(NameAt(self, l, 8), _attr_3)),
     Assign(<<AttributeOf(AttributeOf(NameAt(self, l, 8), attr_2), attr_x)>>),
     Assign(<<AttributeOf(NameAt(module, l, 8), attr_1)>>),
     Assign(<<NameAt(attr_1, l, 8)>>),
     Assign(<<Tuple(<<AttributeOf(NameAt(self, l, 8), attr_1),
                      AttributeOf(NameAt(self, l, 16), attr_2)>>)>>)}

ClassAssignNodes(n) ==
    { nodes \in [1..n -> UNION {ClassBodyNodes(2 + i) : i \in 1..n}] :
        \A i \in 1..n : nodes[i] \in ClassBodyNodes(2 + i) }

MethodAssignNodes(n) ==
    { nodes \in [1..n -> UNION {MethodBodyNodes(10 + i) : i \in 1..n}] :
        \A i \in 1..n : nodes[i] \in MethodBodyNodes(10 + i) }

InitAttrs ==
    /\ \E n_class \in 0..MaxAssigns : \E n_method \in 0..(MaxAssigns - n_class) :
          /\ class_assign_nodes \in ClassAssignNodes(n_class)
          /\ method_assign_nodes \in MethodAssignNodes(n_method)
    /\ \E c \in ParsedConcern(AttrEntryNames, AttrsHeaders) :
          docstr_info = Docstring(None, <<>>, c.primary, c.sections, <<>>, <<>>, None, <<>>)
    /\ docstr_node = DocstrNode
    /\ args = arguments(<<>>)
    /\ return_nodes = <<>>
    /\ yield_nodes = <<>>
    /\ raise_nodes = <<>>
    /\ problems = <<>>
    /\ pc = "start"
    /\ NoRun
    /\ NoParse

CheckAttrs ==
    /\ pc = "start"
    /\ problems' = problems \o attrs_check(docstr_info, docstr_node, class_assign_nodes,
                                           method_assign_nodes)
    /\ pc' = "attrs"
    /\ UNCHANGED <<docstr_info, docstr_node, args, return_nodes, yield_nodes,
                   raise_nodes, class_assign_nodes, method_assign_nodes, run_vars,
                   parse_vars, previous>>

NextAttrs == CheckAttrs

SpecAttrs == InitAttrs /\ [][NextAttrs]_vars

(***************************************************************************)
(* Properties of the attrs checker, checked under SpecAttrs.               *)
(***************************************************************************)
AttrsSectionPresent == docstr_info.attrs # None
IsPublic(name) == name[1] # "_"

\* The names an assignment target binds in the scope of the assignment: the
\* name itself, the owning name of a dotted attribute, each name of an
\* unpacking `b1, b2 = ...` when unpacking counts, nothing for a subscript.
RECURSIVE BoundNames(_, _)
BoundNames(target, unpacking_counts) ==
    IF target.type = "Name" THEN {target.id}
    ELSE IF target.type = "Attribute" THEN BoundNames(target.value, unpacking_counts)
    ELSE IF target.type = "Tuple" /\ unpacking_counts
    THEN UNION {BoundNames(target.elts[i], unpacking_counts) : i \in DOMAIN target.elts}
    ELSE {}

\* The class-direct fields: class-body assignment targets and property-style
\* methods.
ClassDirectFields(unpacking_counts) ==
    UNION { LET node == class_assign_nodes[i]
            IN  IF node.type = "Node" THEN {node.name}
                ELSE IF node.type = "Assign"
                THEN UNION {BoundNames(node.targets[j], unpacking_counts) :
                                j \in DOMAIN node.targets}
                ELSE BoundNames(node.target, unpacking_counts)
            : i \in DOMAIN class_assign_nodes }

SectionMissingRule(unpacking_counts) ==
    (pc = "attrs" /\ ~AttrsSectionPresent)
        => problems =
              IF \E name \in ClassDirectFields(unpacking_counts) : IsPublic(name)
              THEN <<AtDocstring("DCO060", <<>>)>>
              ELSE <<>>

\* C10: for a class whose docstring has no attributes section, the attrs
\* checker yields DCO060, at the docstring, if and only if the class has a
\* public class-direct field: a class-body assignment target or a
\* property-style method whose name does not start with "_".  Fields assigned
\* only in methods through self/cls and private class-body fields never cause
\* it.  The code contradicts this for the targets of an unpacking assignment.
C10_SectionMissingIffPublicClassField == SectionMissingRule(TRUE)

\* C10 holds of every class whose fields are not bound by unpacking: with
\* unpacking targets left out of the fields, the rule is an invariant.
C10_ExceptUnpackingTargets == SectionMissingRule(FALSE)

C10_Witness ==
    /\ pc = "attrs"
    /\ ~AttrsSectionPresent
    /\ Len(class_assign_nodes) = 1
    /\ class_assign_nodes[1].type = "Assign"
    /\ class_assign_nodes[1].targets[1].type = "Tuple"
    /\ Len(method_assign_nodes) = 1
    /\ problems = <<>>

AttrsEntries == IF AttrsSectionPresent THEN docstr_info.attrs[1] ELSE <<>>

\* The sites at which an assignment target binds a name, in source order.
RECURSIVE BoundSites(_, _)
BoundSites(target, unpacking_counts) ==
    IF target.type = "Name"
    THEN <<[name |-> target.id, lineno |-> target.lineno, col_offset |-> target.col_offset]>>
    ELSE IF target.type = "Attribute" THEN BoundSites(target.value, unpacking_counts)
    ELSE IF target.type = "Tuple" /\ unpacking_counts
    THEN BoundSites(target.elts[1], unpacking_counts)
             \o BoundSites(target.elts[2], unpacking_counts)
    ELSE <<>>

RECURSIVE SitesOfTargets(_, _)
SitesOfTargets(targets, unpacking_counts) ==
    IF targets = <<>> THEN <<>>
    ELSE BoundSites(Head(targets), unpacking_counts)
             \o SitesOfTargets(Tail(targets), unpacking_counts)

\* The sites of the class-direct fields, in source order.
RECURSIVE ClassDirectSites(_, _)
ClassDirectSites(nodes, unpacking_counts) ==
    IF nodes = <<>> THEN <<>>
    ELSE LET node == Head(nodes)
         IN  (IF node.type = "Node"
              THEN <<[name |-> node.name, lineno |-> node.lineno,
                      col_offset |-> node.col_offset]>>
              ELSE IF node.type = "Assign"
              THEN SitesOfTargets(node.targets, unpacking_counts)
              ELSE BoundSites(node.target, unpacking_counts))
             \o ClassDirectSites(Tail(nodes), unpacking_counts)

\* The names assigned through self/cls in method bodies.
RECURSIVE ReceiverAttrs(_, _)
ReceiverAttrs(target, unpacking_counts) ==
    IF target.type = "Attribute"
    THEN IF target.value.type = "Name"
         THEN IF target.value.id \in {self, cls} THEN {target.attr} ELSE {}
         ELSE ReceiverAttrs(target.value, unpacking_counts)
    ELSE IF target.type = "Tuple" /\ unpacking_counts
    THEN UNION {ReceiverAttrs(target.elts[i], unpacking_counts) : i \in DOMAIN target.elts}
    ELSE {}

MethodFields(unpacking_counts) ==
    UNION { LET node == method_assign_nodes[i]
            IN  IF node.type = "Assign"
                THEN UNION {ReceiverAttrs(node.targets[j], unpacking_counts) :
                                j \in DOMAIN node.targets}
                ELSE ReceiverAttrs(node.target, unpacking_counts)
            : i \in DOMAIN method_assign_nodes }

AllFields(unpacking_counts) ==
    ClassDirectFields(unpacking_counts) \cup MethodFields(unpacking_counts)

ItemMissingRule(unpacking_counts) ==
    (pc = "attrs" /\ AttrsSectionPresent /\ AllFields(unpacking_counts) # {})
        => LET undocumented ==
                   SelectSeq(ClassDirectSites(class_assign_nodes, unpacking_counts),
                             LAMBDA site : /\ IsPublic(site.name)
                                           /\ site.name \notin set(AttrsEntries))
           IN  /\ Findings("DCO063") =
                      [i \in DOMAIN undocumented |->
                          AtNode(undocumented[i], "DCO063", undocumented[i].name)]
               /\ (/\ Len(class_assign_nodes) = 1
                   /\ class_assign_nodes[1].type = "Node"
                   /\ method_assign_nodes = <<>>
                   /\ AttrsEntries = <<class_assign_nodes[1].name>>
                   /\ Len(docstr_info.attrs_sections) = 1) => problems = <<>>

\* C11: for a class with fields and an attributes section, the DCO063 findings
\* are exactly one per public class-direct field (class-body assignment target
\* or property-style method) whose name is not an entry, each at the field's
\* own site, in source order, and none for method-only or private fields; a
\* class whose only field is a documented property-style method has no
\* finding.  The code contradicts this for the targets of an unpacking
\* assignment.
C11_ItemMissingPerPublicClassField == ItemMissingRule(TRUE)

\* C11 holds of every class whose fields are not bound by unpacking.
C11_ExceptUnpackingTargets == ItemMissingRule(FALSE)

C11_Witness ==
    /\ pc = "attrs"
    /\ AttrsEntries = <<attr_x>>
    /\ Len(class_assign_nodes) = 1
    /\ class_assign_nodes[1].type = "Assign"
    /\ class_assign_nodes[1].targets[1].type = "Tuple"
    /\ Len(method_assign_nodes) = 1
    /\ _iter_method_attrs(method_assign_nodes) # <<>>
    /\ Findings("DCO063") = <<>>

ItemUnexpectedRule(unpacking_counts) ==
    (pc = "attrs" /\ AttrsSectionPresent /\ AllFields(unpacking_counts) # {})
        => /\ \A i \in DOMAIN problems :
                 problems[i].msg.code = "DCO064"
                     => problems[i] = AtDocstring("DCO064", problems[i].msg.arg)
           /\ \A name \in AttrEntryNames :
                 Count(problems, AtDocstring("DCO064", name)) =
                     IF name \in set(AttrsEntries) /\ name \notin AllFields(unpacking_counts)
                     THEN 1 ELSE 0
           /\ (/\ ClassDirectFields(unpacking_counts) = {}
               /\ AttrsEntries # <<>>
               /\ set(AttrsEntries) \subseteq MethodFields(unpacking_counts)
               /\ Cardinality(set(AttrsEntries)) = Len(AttrsEntries)
               /\ Len(docstr_info.attrs_sections) = 1) => problems = <<>>

\* C12: for a class with fields and an attributes section, an entry yields
\* DCO064, at the docstring, if and only if its name matches no field, the
\* fields being the class-body targets, the property-style methods and the
\* self/cls attributes assigned in method bodies, public and private alike;
\* documenting only some of the method-assigned fields yields no finding.  The
\* code contradicts this for the targets of an unpacking assignment.
C12_ItemUnexpectedIffNoField == ItemUnexpectedRule(TRUE)

\* C12 holds of every class whose fields are not bound by unpacking.
C12_ExceptUnpackingTargets == ItemUnexpectedRule(FALSE)

C12_Witness ==
    /\ pc = "attrs"
    /\ AttrsEntries = <<attr_1>>
    /\ Len(class_assign_nodes) = 2
    /\ class_assign_nodes[1].type = "Assign"
    /\ class_assign_nodes[1].targets[1].type = "Tuple"
    /\ class_assign_nodes[2] = Assign(<<NameAt(_attr_3, 4, 4)>>)
    /\ problems = <<AtDocstring("DCO064", attr_1)>>

(***************************************************************************)
(* Properties shared by the args, returns, yields and attrs checkers.  Each *)
(* conjunct is guarded by the checker that ran.                            *)
(***************************************************************************)
RECURSIVE CommaJoined(_)
CommaJoined(headers) ==
    IF headers = <<>> THEN <<>>
    ELSE IF Len(headers) = 1 THEN headers[1]
    ELSE headers[1] \o <<",">> \o CommaJoined(Tail(headers))

SectionDuplicatedFor(headers, has_facts, duplicated, unexpected) ==
    Len(headers) > 1
        => IF has_facts
           THEN Findings(duplicated) = <<AtDocstring(duplicated, CommaJoined(headers))>>
           ELSE problems = <<AtDocstring(unexpected, <<>>)>>

SectionDuplicatedRule(unpacking_counts) ==
    /\ pc = "args" => SectionDuplicatedFor(docstr_info.args_sections, Parameters # <<>>,
                                           "DCO022", "DCO021")
    /\ pc = "returns" => SectionDuplicatedFor(docstr_info.returns_sections,
                                              ValuedReturns # <<>>, "DCO032", "DCO031")
    /\ pc = "yields" => SectionDuplicatedFor(docstr_info.yields_sections,
                                             ValuedYields # <<>>, "DCO042", "DCO041")
    /\ pc = "attrs" => SectionDuplicatedFor(docstr_info.attrs_sections,
                                            AllFields(unpacking_counts) # {},
                                            "DCO062", "DCO061")

\* C13: for the args, attrs, returns and yields concerns, when the definition
\* has the facts of the concern and more than one header matched it, exactly
\* one section-duplicated finding is yielded, at the docstring, naming the
\* matched headers as written, comma-joined in docstring order; when it has
\* no such facts the only finding is section-unexpected.  The code contradicts
\* this for a class whose fields are all bound by unpacking assignments.
C13_SectionDuplicated == SectionDuplicatedRule(TRUE)

\* C13 holds for args, returns and yields, and for every class whose fields
\* are not bound by unpacking.
C13_ExceptUnpackingTargets == SectionDuplicatedRule(FALSE)

C13_Witness ==
    /\ pc = "attrs"
    /\ Len(docstr_info.attrs_sections) = 2
    /\ docstr_info.attrs_sections[1] # docstr_info.attrs_sections[2]
    /\ Len(class_assign_nodes) = 1
    /\ class_assign_nodes[1].type = "Assign"
    /\ class_assign_nodes[1].targets[1].type = "Tuple"
    /\ method_assign_nodes = <<>>
    /\ problems = <<AtDocstring("DCO061", <<>>)>>

\* An item-duplicated finding for an entry name: a finding at the docstring
\* that names the entry and is not the item-unexpected finding.
ItemDuplicatedFindings(name) ==
    {i \in DOMAIN problems :
        /\ problems[i].lineno = docstr_node.lineno
        /\ problems[i].col_offset = docstr_node.col_offset
        /\ problems[i].msg.arg = name
        /\ problems[i].msg.code \notin {"DCO024", "DCO054"}}

OncePerRepeatedEntry(entries, names) ==
    \A name \in names :
        Count(entries, name) > 1 => Cardinality(ItemDuplicatedFindings(name)) = 1

\* C14: for the args checker and the raises checker, when the section is
\* present and the definition has parameters (raises), every entry name that
\* occurs more than once in the section yields exactly one item-duplicated
\* finding at the docstring, however often it is repeated.  The checkers have
\* no such check: a repeated entry yields nothing.
C14_ItemDuplicated ==
    /\ (pc = "args" /\ Parameters # <<>> /\ ArgsSectionPresent)
          => OncePerRepeatedEntry(ArgsEntries, ArgEntryNames)
    /\ (pc = "raises" /\ raise_nodes # <<>> /\ RaisesSectionPresent)
          => OncePerRepeatedEntry(RaisesEntries, ExcEntryNames)

C14_Witness ==
    /\ pc = "args"
    /\ Len(Parameters) = 1
    /\ Parameters[1].arg = arg_1
    /\ ArgsEntries = <<arg_1, arg_1>>
    /\ Len(docstr_info.args_sections) = 1
    /\ problems = <<>>

(***************************************************************************)
(* __init__.py: the plugin.  File classification and the skip decision.    *)
(***************************************************************************)
DOCSTR_MISSING_MSG == [code |-> "DCO010", arg |-> <<>>]

lower(s) ==
    LET Uppercase == <<"A", "B", "C", "D", "E", "F", "G", "H", "I", "J", "K", "L", "M", "N", "O", "P", "Q", "R", "S", "T", "U", "V", "W", "X", "Y", "Z">>
        Lowercase == <<"a", "b", "c", "d", "e", "f", "g", "h", "i", "j", "k", "l", "m", "n", "o", "p", "q", "r", "s", "t", "u", "v", "w", "x", "y", "z">>
    IN  [i \in DOMAIN s |->
            IF \E k \in DOMAIN Uppercase : Uppercase[k] = s[i]
            THEN Lowercase[CHOOSE k \in DOMAIN Uppercase : Uppercase[k] = s[i]]
            ELSE s[i]]

\* Path(filename).name: what follows the last "/"
Path_name(path) ==
    LET slashes == {i \in DOMAIN path : path[i] = "/"}
    IN  IF slashes = {} THEN path
        ELSE SubSeq(path, (CHOOSE i \in slashes : \A j \in slashes : j <= i) + 1, Len(path))

occurs_at(s, i, word) == i >= 1 /\ i + Len(word) - 1 <= Len(s) /\ SubSeq(s, i, i + Len(word) - 1) = word

\* re.match(r"test_.*\.py", s)
match_TEST_FILENAME_PATTERN_DEFAULT(s) ==
    /\ startswith(s, <<"t", "e", "s", "t", "_">>)
    /\ \E i \in 6..Len(s) : occurs_at(s, i, <<".", "p", "y">>)

\* re.match(r"conftest\.py", s)
match_FIXTURE_FILENAME_PATTERN_DEFAULT(s) == startswith(s, <<"c", "o", "n", "f", "t", "e", "s", "t", ".", "p", "y">>)

\* re.match(r"test_.*", s)
match_TEST_FUNCTION_PATTERN_DEFAULT(s) == startswith(s, <<"t", "e", "s", "t", "_">>)

\* re.search(r"(^|\.)fixture$", s, re.IGNORECASE)
search_FIXTURE_DECORATOR_PATTERN_DEFAULT(s) ==
    LET at == Len(s) - 6
    IN  /\ occurs_at(lower(s), at, <<"f", "i", "x", "t", "u", "r", "e">>)
        /\ (at = 1 \/ s[at - 1] = ".")

_get_file_type(name) ==
    IF match_TEST_FILENAME_PATTERN_DEFAULT(name) THEN "test"
    ELSE IF match_FIXTURE_FILENAME_PATTERN_DEFAULT(name) THEN "fixture"
    ELSE "default"

RECURSIVE _is_fixture_decorator(_)
_is_fixture_decorator(node) ==
    IF node.type = "Name" THEN search_FIXTURE_DECORATOR_PATTERN_DEFAULT(node.id)
    ELSE IF node.type = "Attribute" THEN search_FIXTURE_DECORATOR_PATTERN_DEFAULT(node.attr)
    ELSE IF node.type = "Call" THEN _is_fixture_decorator(node.func)
    ELSE FALSE

_skip_function_mut(f_type, node) ==
    \/ match_TEST_FUNCTION_PATTERN_DEFAULT(node.name)
    \/ /\ f_type \in {"test", "fixture"}
       /\ \E i \in DOMAIN node.decorator_list : _is_fixture_decorator(node.decorator_list[i])

_skip_function(f_type, node) ==
    IF f_type = "test" /\ match_TEST_FUNCTION_PATTERN_DEFAULT(node.name) THEN TRUE
    ELSE IF f_type \in {"test", "fixture"}
    THEN \E i \in DOMAIN node.decorator_list : _is_fixture_decorator(node.decorator_list[i])
    ELSE FALSE

(***************************************************************************)
(* docstring.py: what parse makes of the sections found in a docstring.    *)
(* A docstring is carried by the sequence of sections that _get_sections   *)
(* reads from its lines; a paragraph without a header has no name.         *)
(***************************************************************************)
_SECTION_NAMES == [args |-> {<<"a", "r", "g", "s">>, <<"a", "r", "g", "u", "m", "e", "n", "t", "s">>, <<"p", "a", "r", "a", "m", "e", "t", "e", "r", "s">>}, attrs |-> {<<"a", "t", "t", "r", "i", "b", "u", "t", "e", "s">>, <<"a", "t", "t", "r", "s">>}, returns |-> {<<"r", "e", "t", "u", "r", "n">>, <<"r", "e", "t", "u", "r", "n", "s">>}, yields |-> {<<"y", "i", "e", "l", "d">>, <<"y", "i", "e", "l", "d", "s">>}, raises |-> {<<"r", "a", "i", "s", "e", "s">>, <<"r", "a", "i", "s", "e">>}]

_Section(name, subs) == [name |-> name, subs |-> subs]

section_has_name_mut(name, section) ==
    section.name # None /\ section.name[1] \in _SECTION_NAMES[name]

section_has_name(name, section) ==
    section.name # None /\ lower(section.name[1]) \in _SECTION_NAMES[name]

_get_section_by_name_mut(name, sections) == None

RECURSIVE _get_section_by_name(_, _)
_get_section_by_name(name, sections) ==
    IF sections = <<>> THEN None
    ELSE IF section_has_name(name, Head(sections)) THEN <<Head(sections)>>
    ELSE _get_section_by_name(name, Tail(sections))

_get_all_section_names_by_name_mut(name, sections) ==
    LET found == SelectSeq(sections, LAMBDA section : section_has_name(name, section))
    IN  [i \in DOMAIN found \cap {1} |-> found[i].name[1]]

_get_all_section_names_by_name(name, sections) ==
    LET found == SelectSeq(sections, LAMBDA section : section_has_name(name, section))
    IN  [i \in DOMAIN found |-> found[i].name[1]]

parse_sections(sections) ==
    LET subs_of(section) == IF section # None THEN <<section[1].subs>> ELSE None
    IN
    Docstring(subs_of(_get_section_by_name("args", sections)),
              _get_all_section_names_by_name("args", sections),
              subs_of(_get_section_by_name("attrs", sections)),
              _get_all_section_names_by_name("attrs", sections),
              _get_all_section_names_by_name("returns", sections),
              _get_all_section_names_by_name("yields", sections),
              subs_of(_get_section_by_name("raises", sections)),
              _get_all_section_names_by_name("raises", sections))

(***************************************************************************)
(* __init__.py: the visitors that collect the facts of one definition.     *)
(* A statement holds its child statements in body and its expression, if   *)
(* any, in value.                                                          *)
(***************************************************************************)
DefinitionTypes == {"FunctionDef", "AsyncFunctionDef", "ClassDef"}
FunctionTypes == {"FunctionDef", "AsyncFunctionDef"}

\* ast.iter_child_nodes, for the nodes that hold statements or a yield
child_nodes(node) ==
    IF node.type \in DefinitionTypes \cup {"Module", "If"} THEN node.body
    ELSE IF node.type = "Expr" THEN <<node.value>>
    ELSE <<>>

\* VisitorWithinFunction.visit on the nodes of a function's body: the nodes
\* of the given types in visit order.  visit_once has been used up by the
\* function itself, so a nested definition is not entered.
RECURSIVE nodes_within_function_mut(_, _)
nodes_within_function_mut(types, nodes) ==
    IF nodes = <<>> THEN <<>>
    ELSE LET node == Head(nodes)
         IN  (IF node.type \in types THEN <<node>> ELSE <<>>)
             \o nodes_within_function_mut(types, child_nodes(node))
             \o nodes_within_function_mut(types, Tail(nodes))

RECURSIVE nodes_within_function(_, _)
nodes_within_function(types, nodes) ==
    IF nodes = <<>> THEN <<>>
    ELSE LET node == Head(nodes)
         IN  (IF node.type \in types THEN <<node>> ELSE <<>>)
             \o (IF node.type \in DefinitionTypes THEN <<>>
                 ELSE nodes_within_function(types, child_nodes(node)))
             \o nodes_within_function(types, Tail(nodes))

\* VisitorWithinClass.visit on the nodes of a class's body.  At class level
\* (top_level FALSE) an assignment is a class assignment and a function is
\* entered; inside that function (top_level TRUE) an assignment is a method
\* assignment and a further function is not entered.  visit_once has been
\* used up by the class itself, so a nested class is never entered.
RECURSIVE nodes_within_class(_, _, _)
nodes_within_class(in_method, top_level, nodes) ==
    IF nodes = <<>> THEN <<>>
    ELSE LET node == Head(nodes)
         IN  (IF node.type \in {"Assign", "AnnAssign", "AugAssign"} /\ in_method = top_level THEN <<node>> ELSE <<>>)
             \o (IF node.type = "ClassDef" THEN <<>>
                 ELSE IF node.type \in FunctionTypes
                 THEN IF top_level THEN <<>>
                      ELSE nodes_within_class(in_method, TRUE, node.body)
                 ELSE nodes_within_class(in_method, top_level, child_nodes(node)))
             \o nodes_within_class(in_method, top_level, Tail(nodes))

\* __init__.py _check_attrs, the attrs check the visitor is wired to: the
\* public targets are taken from the class and the method targets alike.
_check_attrs(d_info, d_node, c_nodes, m_nodes) ==
    LET all_targets == _iter_class_attrs(c_nodes) \o _iter_method_attrs(m_nodes)
        public_targets ==
            SelectSeq(all_targets, LAMBDA target : ~startswith(target.name, UNUSED_ARGS_PREFIX))
    IN  (IF public_targets # <<>> /\ d_info.attrs = None
         THEN <<at_docstr(d_node, ATTRS_SECTION_NOT_IN_DOCSTR_MSG)>>
         ELSE <<>>)
        \o
        (IF all_targets = <<>> /\ d_info.attrs # None
         THEN <<at_docstr(d_node, ATTRS_SECTION_IN_DOCSTR_MSG)>>
         ELSE IF all_targets # <<>> /\ d_info.attrs # None
         THEN LET docstr_attrs == set(d_info.attrs[1])
              IN  (IF Len(d_info.attrs_sections) > 1
                   THEN <<at_docstr(d_node, MULT_ATTRS_SECTIONS_IN_DOCSTR_MSG(
                              join(<<",">>, d_info.attrs_sections)))>>
                   ELSE <<>>)
                  \o attr_not_in_docstr(docstr_attrs, public_targets)
                  \o attr_in_docstr(d_node, docstr_attrs, all_targets)
                  \o (IF public_targets = <<>> /\ Len(d_info.attrs[1]) = 0
                      THEN <<at_docstr(d_node, ATTRS_SECTION_IN_DOCSTR_MSG)>>
                      ELSE <<>>)
         ELSE <<>>)

(***************************************************************************)
(* __init__.py: Visitor and Plugin.run.  The visitor walks the tree depth  *)
(* first; todo holds the nodes still to be visited, the next one first.    *)
(***************************************************************************)
\* ast.get_docstring(node): the text of a leading string-literal expression
ast_get_docstring_mut(node) ==
    IF node.body # <<>> /\ Head(node.body).type = "Expr"
       /\ Head(node.body).value.type = "Constant"
    THEN <<Head(node.body).value.value>>
    ELSE None

ast_get_docstring(node) ==
    IF node.body # <<>> /\ Head(node.body).type = "Expr"
       /\ Head(node.body).value.type = "Constant"
       /\ Head(node.body).value.value.type = "str"
    THEN <<Head(node.body).value.value>>
    ELSE None

\* the condition under which the section checks of a definition are run
has_docstr_node(node) ==
    /\ node.body # <<>>
    /\ Head(node.body).type = "Expr"
    /\ Head(node.body).value.type = "Constant"
    /\ Head(node.body).value.value.type = "str"

docstr_missing(node) ==
    IF ast_get_docstring(node) = None
    THEN <<Problem(node.lineno, node.col_offset, DOCSTR_MISSING_MSG)>>
    ELSE <<>>

\* the locals of visit_any_function for a function with a docstring
function_facts(node) ==
    [docstr_info |-> parse_sections(Head(node.body).value.value.sections),
     docstr_node |-> Head(node.body).value,
     args |-> node.args,
     return_nodes |-> nodes_within_function({"Return"}, node.body),
     yield_nodes |-> nodes_within_function({"Yield", "YieldFrom"}, node.body),
     raise_nodes |-> nodes_within_function({"Raise"}, node.body)]

\* the locals of visit_ClassDef for a class with a docstring
class_facts(node) ==
    [docstr_info |-> parse_sections(Head(node.body).value.value.sections),
     docstr_node |-> Head(node.body).value,
     class_assign_nodes |-> nodes_within_class(FALSE, FALSE, node.body),
     method_assign_nodes |-> nodes_within_class(TRUE, FALSE, node.body)]

\* What visit_any_function appends to the problems for one function.  The
\* args and raises checks the visitor calls are those of args.py and
\* raises.py, statement for statement.
function_problems_mut(f_type, node) ==
    IF _skip_function(f_type, node) THEN <<>>
    ELSE docstr_missing(node)
         \o (IF has_docstr_node(node)
             THEN LET facts == function_facts(node)
                  IN  raises_check(facts.docstr_info, facts.docstr_node, facts.raise_nodes)
                      \o args_check(facts.docstr_info, facts.docstr_node, facts.args)
                      \o _check_returns(facts.docstr_info, facts.docstr_node,
                                        facts.return_nodes)
                      \o _check_yields(facts.docstr_info, facts.docstr_node, facts.yield_nodes)
             ELSE <<>>)

function_problems(f_type, node) ==
    IF _skip_function(f_type, node) THEN <<>>
    ELSE docstr_missing(node)
         \o (IF has_docstr_node(node)
             THEN LET facts == function_facts(node)
                  IN  args_check(facts.docstr_info, facts.docstr_node, facts.args)
                      \o _check_returns(facts.docstr_info, facts.docstr_node,
                                        facts.return_nodes)
                      \o _check_yields(facts.docstr_info, facts.docstr_node, facts.yield_nodes)
                      \o raises_check(facts.docstr_info, facts.docstr_node, facts.raise_nodes)
             ELSE <<>>)

\* What visit_ClassDef appends to the problems for one class.
class_problems(node) ==
    docstr_missing(node)
    \o (IF has_docstr_node(node)
        THEN LET facts == class_facts(node)
             IN  _check_attrs(facts.docstr_info, facts.docstr_node,
                              facts.class_assign_nodes, facts.method_assign_nodes)
        ELSE <<>>)

(***************************************************************************)
(* Inputs of a run: a file name and the syntax tree of a module.  A        *)
(* definition that starts on line l has its parameters on line l, its      *)
(* decorators on line l - 1 and its docstring on line l + 1; the body      *)
(* statement i of the outer definition starts on line 10 * i, and what is  *)
(* nested in it on the following lines.                                    *)
(***************************************************************************)
MaxBody == 2

Str(sections) == [type |-> "str", sections |-> sections]
Number == [type |-> "int"]
Constant(value, lineno, col_offset) ==
    [type |-> "Constant", value |-> value, lineno |-> lineno, col_offset |-> col_offset]
Expr(value) ==
    [type |-> "Expr", value |-> value, lineno |-> value.lineno, col_offset |-> value.col_offset]
Return(value, lineno, col_offset) ==
    [type |-> "Return", value |-> value, lineno |-> lineno, col_offset |-> col_offset]
Raise(exc, lineno, col_offset) ==
    [type |-> "Raise", exc |-> exc, lineno |-> lineno, col_offset |-> col_offset]
Yield(value, lineno, col_offset) ==
    [type |-> "Yield", value |-> value, lineno |-> lineno, col_offset |-> col_offset]
If(body, lineno, col_offset) ==
    [type |-> "If", body |-> body, lineno |-> lineno, col_offset |-> col_offset]
arguments_of(names, lineno, col_offset) ==
    [posonlyargs |-> <<>>,
     args |-> [i \in DOMAIN names |->
                  [arg |-> names[i], lineno |-> lineno, col_offset |-> col_offset + 4 + 4 * i]],
     vararg |-> <<>>, kwonlyargs |-> <<>>, kwarg |-> <<>>]
FunctionDef(type, name, decorator_list, names, body, lineno, col_offset) ==
    [type |-> type, name |-> name, decorator_list |-> decorator_list,
     args |-> arguments_of(names, lineno, col_offset), body |-> body,
     lineno |-> lineno, col_offset |-> col_offset]
ClassDef(name, body, lineno, col_offset) ==
    [type |-> "ClassDef", name |-> name, body |-> body,
     lineno |-> lineno, col_offset |-> col_offset]

_foo == <<"_", "f", "o", "o">>
test_foo == <<"t", "e", "s", "t", "_", "f", "o", "o">>

\* docstrings, each with a summary paragraph first
Doc ==
    LET summary == _Section(None, <<>>)
    IN  [Plain |-> <<summary>>,
         Args |-> <<summary, _Section(<<<<"A", "r", "g", "s">>>>, <<arg_1>>)>>,
         Raises |-> <<summary, _Section(<<<<"R", "A", "I", "S", "E", "S">>>>, <<Exc1>>)>>,
         Full |-> <<summary, _Section(<<<<"P", "a", "r", "a", "m", "e", "t", "e", "r", "s">>>>, <<arg_1>>),
                    _Section(<<<<"R", "e", "t", "u", "r", "n", "s">>>>, <<>>), _Section(<<<<"Y", "i", "e", "l", "d", "s">>>>, <<>>),
                    _Section(<<<<"R", "a", "i", "s", "e", "s">>>>, <<Exc1>>)>>,
         Attrs |-> <<summary, _Section(<<<<"A", "t", "t", "r", "s">>>>, <<attr_1>>)>>,
         Attributes |-> <<summary, _Section(<<<<"A", "t", "t", "r", "i", "b", "u", "t", "e", "s">>>>, <<attr_2, attr_x>>),
                          _Section(<<<<"a", "t", "t", "r", "s">>>>, <<>>)>>]

\* the leading statements of a body: nothing, a number, or a docstring
Leading(docs, l, c) ==
    {<<>>, <<Expr(Constant(Number, l, c))>>}
    \cup {<<Expr(Constant(Str(sections), l, c))>> : sections \in docs}

FunctionItems(l, c) ==
    {Return(<<NameValue>>, l, c),
     Raise(<<Name(Exc1, l)>>, l, c),
     Expr(Yield(<<NameValue>>, l, c)),
     If(<<Return(<<NameValue>>, l + 1, c + 4),
          If(<<Raise(<<Name(Exc1, l + 3)>>, l + 3, c + 8)>>, l + 2, c + 4)>>, l, c),
     FunctionDef("FunctionDef", <<"b", "a", "r">>, <<>>, <<>>,
                 <<Return(<<NameValue>>, l + 2, c + 4),
                   Raise(<<Name(Exc2, l + 3)>>, l + 3, c + 4)>>, l, c),
     FunctionDef("AsyncFunctionDef", <<"b", "a", "r">>, <<>>, <<>>,
                 <<Expr(Constant(Str(Doc.Plain), l + 1, c + 4)),
                   Expr(Yield(<<NameValue>>, l + 2, c + 4))>>, l, c),
     ClassDef(<<"b", "a", "z">>,
              <<FunctionDef("FunctionDef", <<"b", "a", "r">>, <<>>, <<self>>,
                            <<Raise(<<Name(Exc2, l + 2)>>, l + 2, c + 8)>>, l + 1, c + 4)>>,
              l, c)}

ClassItems(l, c) ==
    {Assign(<<NameAt(attr_1, l, c)>>),
     Assign(<<NameAt(_attr_3, l, c)>>),
     If(<<AnnAssign(NameAt(attr_1, l + 1, c + 4))>>, l, c),
     FunctionDef("FunctionDef", <<"b", "a", "r">>, <<>>, <<self>>,
                 <<Assign(<<AttributeOf(NameAt(self, l + 2, c + 4), attr_2)>>)>>, l, c),
     FunctionDef("AsyncFunctionDef", <<"b", "a", "r">>, <<>>, <<self>>,
                 <<Expr(Constant(Str(Doc.Plain), l + 1, c + 4)),
                   Assign(<<AttributeOf(NameAt(self, l + 2, c + 4), attr_1)>>),
                   FunctionDef("FunctionDef", _foo, <<>>, <<>>,
                               <<Assign(<<AttributeOf(NameAt(self, l + 4, c + 8), attr_x)>>)>>,
                               l + 3, c + 4)>>, l, c),
     ClassDef(<<"b", "a", "z">>, <<Assign(<<NameAt(attr_2, l + 1, c + 4)>>)>>, l, c)}

Items(type, l, c) == IF type = "ClassDef" THEN ClassItems(l, c) ELSE FunctionItems(l, c)

\* the bodies of n statements of a definition that starts on line 1
Bodies(type, n) ==
    { items \in [1..n -> UNION {Items(type, 10 * i, 4) : i \in 1..n}] :
        \A i \in 1..n : items[i] \in Items(type, 10 * i, 4) }

Sibling == FunctionDef("FunctionDef", <<"b", "a", "z">>, <<>>, <<>>, <<Return(None, 101, 4)>>, 100, 0)

FunctionModules ==
    { [type |-> "Module",
       body |-> <<FunctionDef(kind.type, kind.name, <<>>, names, docstr \o body, 1, 0),
                  Sibling>>] :
        kind \in {[type |-> "FunctionDef", name |-> <<"f", "o", "o">>],
                  [type |-> "FunctionDef", name |-> _foo],
                  [type |-> "AsyncFunctionDef", name |-> <<"f", "o", "o">>]},
        names \in {<<>>, <<arg_1>>},
        docstr \in Leading({Doc.Plain, Doc.Args, Doc.Raises, Doc.Full}, 2, 4),
        body \in UNION {Bodies("FunctionDef", n) : n \in 0..MaxBody} }

ClassModules ==
    { [type |-> "Module", body |-> <<ClassDef(<<"f", "o", "o">>, docstr \o body, 1, 0)>>] :
        docstr \in Leading({Doc.Plain, Doc.Attrs, Doc.Attributes}, 2, 4),
        body \in UNION {Bodies("ClassDef", n) : n \in 0..MaxBody} }

DecoratorLists(l) ==
    {<<>>,
     <<Name(<<"f", "i", "x", "t", "u", "r", "e">>, l)>>,
     <<Name(<<"F", "i", "x", "t", "u", "r", "e">>, l)>>,
     <<AttributeOf(NameAt(<<"p", "y", "t", "e", "s", "t">>, l, 1), <<"f", "i", "x", "t", "u", "r", "e">>)>>,
     <<Call(AttributeOf(NameAt(<<"p", "y", "t", "e", "s", "t">>, l, 1), <<"F", "I", "X", "T", "U", "R", "E">>), l)>>,
     <<Name(<<"m", "y", "f", "i", "x", "t", "u", "r", "e">>, l)>>,
     <<Name(<<"o", "t", "h", "e", "r">>, l - 1), Call(Name(<<"f", "i", "x", "t", "u", "r", "e">>, l), l)>>,
     <<Name(<<"o", "v", "e", "r", "l", "o", "a", "d">>, l)>>,
     <<AttributeOf(NameAt(<<"t", "y", "p", "i", "n", "g">>, l, 1), <<"o", "v", "e", "r", "l", "o", "a", "d">>)>>,
     <<Call(Name(<<"o", "v", "e", "r", "l", "o", "a", "d">>, l), l)>>}

\* one function with or without decorators, at module level or as a method
DecoratedFunctions(names, c) ==
    { FunctionDef(type, name, decorator_list, names, docstr \o body, 10, c) :
        type \in FunctionTypes, name \in {<<"f", "o", "o">>, test_foo},
        decorator_list \in DecoratorLists(9),
        docstr \in Leading({Doc.Args}, 11, c + 4),
        body \in {<<Return(<<NameValue>>, 12, c + 4)>>}
                  \cup {<<FunctionDef("FunctionDef", helper, <<>>, <<>>,
                                      <<Return(None, 13, c + 8)>>, 12, c + 4)>> :
                           helper \in {<<"b", "a", "r">>, test_foo}} }

DecoratedModules ==
    { [type |-> "Module", body |-> <<function>>] :
        function \in DecoratedFunctions(<<>>, 0) \cup DecoratedFunctions(<<self>>, 0) }
    \cup
    { [type |-> "Module",
       body |-> <<ClassDef(<<"b", "a", "z">>, <<Expr(Constant(Str(Doc.Plain), 2, 4)), function>>, 1, 0)>>] :
        function \in DecoratedFunctions(<<self>>, 4) }

Filenames == {<<"a", ".", "p", "y">>, <<"t", "e", "s", "t", "_", "a", ".", "p", "y">>, <<"c", "o", "n", "f", "t", "e", "s", "t", ".", "p", "y">>, <<"t", "e", "s", "t", "_", "/", "a", ".", "p", "y">>, <<"t", "e", "s", "t", "s", "/", "t", "e", "s", "t", "_", "a", ".", "p", "y">>}

InitRun ==
    /\ \/ /\ tree \in FunctionModules \cup ClassModules
          /\ filename = Path_name(<<"s", "r", "c", "/", "a", ".", "p", "y">>)
       \/ /\ tree \in DecoratedModules
          /\ \E path \in Filenames : filename = Path_name(path)
    /\ file_type = "default"
    /\ todo = <<>>
    /\ docstr_info = Docstring(None, <<>>, None, <<>>, <<>>, <<>>, None, <<>>)
    /\ docstr_node = DocstrNode
    /\ args = arguments(<<>>)
    /\ return_nodes = <<>>
    /\ yield_nodes = <<>>
    /\ raise_nodes = <<>>
    /\ class_assign_nodes = <<>>
    /\ method_assign_nodes = <<>>
    /\ problems = <<>>
    /\ pc = "start"
    /\ NoParse

\* Plugin.run up to visitor.visit(node=self._tree)
PluginRun ==
    /\ pc = "start"
    /\ file_type' = _get_file_type(filename)
    /\ todo' = <<tree>>
    /\ pc' = "visit"
    /\ UNCHANGED <<docstr_info, docstr_node, args, return_nodes, yield_nodes, raise_nodes,
                   class_assign_nodes, method_assign_nodes, problems, tree, filename,
                   parse_vars, previous>>

\* NodeVisitor.generic_visit for a node that is not a definition
generic_visit ==
    /\ pc = "visit"
    /\ todo # <<>>
    /\ Head(todo).type \notin DefinitionTypes
    /\ todo' = child_nodes(Head(todo)) \o Tail(todo)
    /\ UNCHANGED <<docstr_info, docstr_node, args, return_nodes, yield_nodes, raise_nodes,
                   class_assign_nodes, method_assign_nodes, problems, pc, tree, filename,
                   file_type, parse_vars, previous>>

visited_after_mut(skipped, node) == IF skipped THEN <<>> ELSE child_nodes(node)

\* self.generic_visit(node) at the end of visit_any_function, whether or not
\* the function was skipped
visited_after(skipped, node) == child_nodes(node)

visit_any_function ==
    /\ pc = "visit"
    /\ todo # <<>>
    /\ Head(todo).type \in FunctionTypes
    /\ LET node == Head(todo)
       IN  /\ problems' = problems \o function_problems(file_type, node)
           /\ IF ~_skip_function(file_type, node) /\ has_docstr_node(node)
              THEN /\ docstr_info' = function_facts(node).docstr_info
                   /\ docstr_node' = function_facts(node).docstr_node
                   /\ args' = function_facts(node).args
                   /\ return_nodes' = function_facts(node).return_nodes
                   /\ yield_nodes' = function_facts(node).yield_nodes
                   /\ raise_nodes' = function_facts(node).raise_nodes
              ELSE UNCHANGED <<docstr_info, docstr_node, args, return_nodes, yield_nodes,
                               raise_nodes>>
           /\ todo' = visited_after(_skip_function(file_type, node), node) \o Tail(todo)
    /\ UNCHANGED <<class_assign_nodes, method_assign_nodes, pc, tree, filename, file_type,
                   parse_vars, previous>>

visit_ClassDef ==
    /\ pc = "visit"
    /\ todo # <<>>
    /\ Head(todo).type = "ClassDef"
    /\ LET node == Head(todo)
       IN  /\ problems' = problems \o class_problems(node)
           /\ IF has_docstr_node(node)
              THEN /\ docstr_info' = class_facts(node).docstr_info
                   /\ docstr_node' = class_facts(node).docstr_node
                   /\ class_assign_nodes' = class_facts(node).class_assign_nodes
                   /\ method_assign_nodes' = class_facts(node).method_assign_nodes
              ELSE UNCHANGED <<docstr_info, docstr_node, class_assign_nodes,
                               method_assign_nodes>>
           /\ todo' = child_nodes(node) \o Tail(todo)
    /\ UNCHANGED <<args, return_nodes, yield_nodes, raise_nodes, pc, tree, filename,
                   file_type, parse_vars, previous>>

\* Plugin.run after the visit: one result per problem, in the order recorded
yield_problems ==
    /\ pc = "visit"
    /\ todo = <<>>
    /\ pc' = "done"
    /\ UNCHANGED <<docstr_info, docstr_node, args, return_nodes, yield_nodes, raise_nodes,
                   class_assign_nodes, method_assign_nodes, problems, run_vars,
                   parse_vars, previous>>

NextRun == PluginRun \/ generic_visit \/ visit_any_function \/ visit_ClassDef \/ yield_problems

SpecRun == InitRun /\ [][NextRun]_vars

(***************************************************************************)
(* Properties of a run.  The definitions of the tree are numbered in       *)
(* depth-first pre-order; a finding is attributed to a definition by its   *)
(* position: an attrs finding to the innermost class around it, any other  *)
(* finding to the innermost definition around it.                          *)
(***************************************************************************)
RECURSIVE definitions_in(_)
definitions_in(nodes) ==
    IF nodes = <<>> THEN <<>>
    ELSE (IF Head(nodes).type \in DefinitionTypes THEN <<Head(nodes)>> ELSE <<>>)
         \o definitions_in(child_nodes(Head(nodes)))
         \o definitions_in(Tail(nodes))

Definitions == definitions_in(<<tree>>)

RECURSIVE lines_in(_)
lines_in(nodes) ==
    IF nodes = <<>> THEN {}
    ELSE {Head(nodes).lineno} \cup lines_in(child_nodes(Head(nodes))) \cup lines_in(Tail(nodes))

AttrsCodes == {"DCO060", "DCO061", "DCO062", "DCO063", "DCO064", "DCO065"}

\* for each finding, the number of the definition it is attributed to
Owners ==
    LET defs == Definitions
        lines == [i \in DOMAIN defs |-> lines_in(<<defs[i]>>)]
        around(p) == {i \in DOMAIN defs :
                        /\ p.lineno \in lines[i]
                        /\ p.msg.code \in AttrsCodes => defs[i].type = "ClassDef"}
        innermost(S) == IF S = {} THEN 0 ELSE CHOOSE i \in S : \A j \in S : j <= i
    IN  [k \in DOMAIN problems |-> innermost(around(problems[k]))]

OwnedBy(owners, i) == {k \in DOMAIN owners : owners[k] = i}

OnlyFinding(owners, i, p) == \E k \in OwnedBy(owners, i) : OwnedBy(owners, i) = {k} /\ problems[k] = p

LeadingString(d) ==
    /\ d.body # <<>>
    /\ d.body[1].type = "Expr"
    /\ d.body[1].value.type = "Constant"
    /\ d.body[1].value.value.type = "str"

DocstringMissingAt(d) == Problem(d.lineno, d.col_offset, DOCSTR_MISSING_MSG)

RECURSIVE DecoratorName(_)
DecoratorName(node) ==
    IF node.type = "Name" THEN node.id
    ELSE IF node.type = "Attribute" THEN node.attr
    ELSE IF node.type = "Call" THEN DecoratorName(node.func)
    ELSE <<>>

HasFixtureDecorator(d) ==
    \E i \in DOMAIN d.decorator_list : lower(DecoratorName(d.decorator_list[i])) = <<"f", "i", "x", "t", "u", "r", "e">>

TestFile == match_TEST_FILENAME_PATTERN_DEFAULT(filename)
FixtureFile == ~TestFile /\ match_FIXTURE_FILENAME_PATTERN_DEFAULT(filename)

Skipped(d) ==
    /\ d.type \in FunctionTypes
    /\ \/ TestFile /\ match_TEST_FUNCTION_PATTERN_DEFAULT(d.name)
       \/ (TestFile \/ FixtureFile) /\ HasFixtureDecorator(d)

C16_SkipDecision ==
    pc = "done" =>
        LET defs == Definitions
            owners == Owners
        IN  \A i \in DOMAIN defs :
                defs[i].type \in FunctionTypes =>
                    /\ Skipped(defs[i]) => OwnedBy(owners, i) = {}
                    /\ (~TestFile /\ ~FixtureFile /\ ~LeadingString(defs[i]))
                          => OnlyFinding(owners, i, DocstringMissingAt(defs[i]))

C16_Witness ==
    /\ pc = "done"
    /\ filename = <<"c", "o", "n", "f", "t", "e", "s", "t", ".", "p", "y">>
    /\ tree.body[1].type = "ClassDef"
    /\ tree.body[1].name = <<"b", "a", "z">>
    /\ tree.body[1].body[2].name = test_foo
    /\ tree.body[1].body[2].decorator_list # <<>>
    /\ tree.body[1].body[2].decorator_list[1].type = "Call"
    /\ tree.body[1].body[2].decorator_list[1].func.type = "Attribute"
    /\ tree.body[1].body[2].decorator_list[1].func.attr = <<"F", "I", "X", "T", "U", "R", "E">>
    /\ tree.body[1].body[2].body[1].type = "FunctionDef"
    /\ problems = <<DocstringMissingAt(tree.body[1].body[2].body[1])>>

HasOverloadDecorator(d) ==
    \E i \in DOMAIN d.decorator_list : DecoratorName(d.decorator_list[i]) = <<"o", "v", "e", "r", "l", "o", "a", "d">>

\* C17: a function or method with an overload decorator, bare, dotted or
\* called, yields no finding of its own in any file.  The visitor does not
\* know the decorator: such a function is evaluated like any other.
C17_OverloadSkipped ==
    pc = "done" =>
        LET defs == Definitions
            owners == Owners
        IN  \A i \in DOMAIN defs :
                (defs[i].type \in FunctionTypes /\ HasOverloadDecorator(defs[i]))
                    => OwnedBy(owners, i) = {}

C17_Witness ==
    /\ pc = "done"
    /\ filename = <<"t", "e", "s", "t", "_", "a", ".", "p", "y">>
    /\ tree.body[1].type = "FunctionDef"
    /\ tree.body[1].name = <<"f", "o", "o">>
    /\ tree.body[1].decorator_list # <<>>
    /\ tree.body[1].decorator_list[1].type = "Attribute"
    /\ tree.body[1].decorator_list[1].attr = <<"o", "v", "e", "r", "l", "o", "a", "d">>
    /\ tree.body[1].body[1].type = "Return"
    /\ problems = <<DocstringMissingAt(tree.body[1])>>

\* The sections of a definition's docstring, and whether one is of a concern.
SectionsOf(d) == d.body[1].value.value.sections
HasSection(d, name) ==
    \E i \in DOMAIN SectionsOf(d) :
        /\ SectionsOf(d)[i].name # None
        /\ lower(SectionsOf(d)[i].name[1]) \in _SECTION_NAMES[name]

AtDocstringOf(d, code) ==
    \E k \in DOMAIN problems :
        problems[k] = Problem(d.body[1].value.lineno, d.body[1].value.col_offset,
                              [code |-> code, arg |-> <<>>])

\* The nodes of the given types that belong to a definition itself: those of
\* its body, at any depth, that lie in no definition nested in it.
RECURSIVE nodes_in(_)
nodes_in(nodes) ==
    IF nodes = <<>> THEN <<>>
    ELSE <<Head(nodes)>> \o nodes_in(child_nodes(Head(nodes))) \o nodes_in(Tail(nodes))

NestedLines(d) == lines_in(definitions_in(d.body))

OwnNodes(d, types) ==
    LET nested == NestedLines(d)
    IN  SelectSeq(nodes_in(d.body), LAMBDA n : n.type \in types /\ n.lineno \notin nested)

Private(d) == d.name # <<>> /\ d.name[1] = "_"

\* C18: a private function with a docstring yields no section-missing
\* finding for a missing args section, even with used parameters, nor for a
\* missing raises section, even when it raises; a section that is present is
\* still checked, so an args or raises section without parameters or raises
\* yields section-unexpected.  The checkers do not look at the function's
\* name: a private function is checked like a public one.
C18_PrivateFunction ==
    pc = "done" =>
        LET defs == Definitions
        IN  \A i \in DOMAIN defs :
                LET d == defs[i]
                IN  (d.type \in FunctionTypes /\ Private(d) /\ LeadingString(d) /\ ~Skipped(d)) =>
                        /\ ~HasSection(d, "args") => ~AtDocstringOf(d, "DCO020")
                        /\ ~HasSection(d, "raises") => ~AtDocstringOf(d, "DCO050")
                        /\ (HasSection(d, "args") /\ d.args.args = <<>>)
                              => AtDocstringOf(d, "DCO021")
                        /\ (HasSection(d, "raises") /\ OwnNodes(d, {"Raise"}) = <<>>)
                              => AtDocstringOf(d, "DCO051")

C18_Witness ==
    /\ pc = "done"
    /\ tree.body[1].type = "FunctionDef"
    /\ tree.body[1].name = _foo
    /\ tree.body[1].args.args # <<>>
    /\ Len(tree.body[1].body) = 2
    /\ LeadingString(tree.body[1])
    /\ SectionsOf(tree.body[1]) = Doc.Plain
    /\ tree.body[1].body[2].type = "Raise"
    /\ problems = <<at_docstr(tree.body[1].body[1].value, ARGS_SECTION_NOT_IN_DOCSTR_MSG),
                    at_docstr(tree.body[1].body[1].value, RAISES_SECTION_NOT_IN_DOCSTR_MSG),
                    DocstringMissingAt(Sibling)>>

\* the place of a finding in the order of the checks of one definition
Rank(code) ==
    IF code = "DCO010" THEN 0
    ELSE IF code \in {"DCO020", "DCO021", "DCO022", "DCO023", "DCO024"} \cup AttrsCodes THEN 1
    ELSE IF code \in {"DCO030", "DCO031", "DCO032"} THEN 2
    ELSE IF code \in {"DCO040", "DCO041", "DCO042"} THEN 3
    ELSE 4

\* C19: the findings are grouped by definition, the definitions in
\* depth-first pre-order, and within one definition they come in the order
\* docstring-missing, args, returns, yields, raises (for a class:
\* docstring-missing, attrs); findings of two definitions never interleave.
C19_FindingsOrder ==
    pc = "done" =>
        LET owners == Owners
        IN  /\ \A k \in DOMAIN problems : 0 < owners[k]
            /\ \A k \in 1..(Len(problems) - 1) :
                  /\ owners[k] <= owners[k + 1]
                  /\ owners[k] = owners[k + 1]
                        => Rank(problems[k].msg.code) <= Rank(problems[k + 1].msg.code)

C19_Witness ==
    /\ pc = "done"
    /\ Len(problems) = 5
    /\ [k \in 1..5 |-> problems[k].msg.code]
          = <<"DCO020", "DCO030", "DCO050", "DCO010", "DCO010">>
    /\ Owners = <<1, 1, 1, 2, 3>>
    /\ tree.body[1].body[2].type = "FunctionDef"
    /\ tree.body[1].body[3].type = "If"

\* C20: the return, yield and raise statements inside a function, async
\* function or class nested in a function are not facts of that function:
\* its section-missing, section-unexpected and item-missing findings are
\* those of the statements of its own body, at any depth of control flow,
\* also when they come after the nested definition.
C20_NestedDefinitionsNotCounted ==
    pc = "done" =>
        LET defs == Definitions
            checked == {i \in DOMAIN defs :
                          /\ defs[i].type \in FunctionTypes
                          /\ LeadingString(defs[i])
                          /\ ~Skipped(defs[i])}
            returns(d) == SelectSeq(OwnNodes(d, {"Return"}), LAMBDA n : n.value # None)
            yields(d) == SelectSeq(OwnNodes(d, {"Yield", "YieldFrom"}), LAMBDA n : n.value # None)
            raises(d) == OwnNodes(d, {"Raise"})
            entries(d) == set(parse_sections(SectionsOf(d)).raises[1])
            at(nodes, msg) == {Problem(nodes[k].lineno, nodes[k].col_offset, msg) :
                                 k \in DOMAIN nodes}
            no_returns == UNION {at(returns(defs[i]), RETURNS_SECTION_NOT_IN_DOCSTR_MSG) :
                                   i \in {j \in checked : ~HasSection(defs[j], "returns")}}
            no_yields == UNION {at(yields(defs[i]), YIELDS_SECTION_NOT_IN_DOCSTR_MSG) :
                                  i \in {j \in checked : ~HasSection(defs[j], "yields")}}
            no_entry == UNION {{Problem(n.exc[1].lineno, n.exc[1].col_offset,
                                        EXC_NOT_IN_DOCSTR_MSG(n.exc[1].id)) :
                                   n \in {m \in set(raises(defs[i])) :
                                             m.exc[1].id \notin entries(defs[i])}} :
                                 i \in {j \in checked : HasSection(defs[j], "raises")}}
        IN  /\ set(Findings("DCO030")) = no_returns
            /\ Len(Findings("DCO030")) = Cardinality(no_returns)
            /\ set(Findings("DCO040")) = no_yields
            /\ Len(Findings("DCO040")) = Cardinality(no_yields)
            /\ set(Findings("DCO053")) = no_entry
            /\ Len(Findings("DCO053")) = Cardinality(no_entry)
            /\ \A i \in checked :
                  LET d == defs[i]
                  IN  /\ AtDocstringOf(d, "DCO031")
                            <=> (returns(d) = <<>> /\ HasSection(d, "returns"))
                      /\ AtDocstringOf(d, "DCO041")
                            <=> (yields(d) = <<>> /\ HasSection(d, "yields"))
                      /\ AtDocstringOf(d, "DCO050")
                            <=> (raises(d) # <<>> /\ ~HasSection(d, "raises"))
                      /\ AtDocstringOf(d, "DCO051")
                            <=> (raises(d) = <<>> /\ HasSection(d, "raises"))

C20_Witness ==
    /\ pc = "done"
    /\ tree.body[1].type = "FunctionDef"
    /\ Len(tree.body[1].body) = 3
    /\ LeadingString(tree.body[1])
    /\ SectionsOf(tree.body[1]) = Doc.Raises
    /\ tree.body[1].body[2].type = "ClassDef"
    /\ tree.body[1].body[3].type = "If"
    /\ OwnNodes(tree.body[1], {"Raise"}) = <<Raise(<<Name(Exc1, 23)>>, 23, 12)>>
    /\ Findings("DCO030") = <<Problem(21, 8, RETURNS_SECTION_NOT_IN_DOCSTR_MSG)>>
    /\ Findings("DCO051") = <<>>
    /\ Findings("DCO053") = <<>>

(***************************************************************************)
(* docstring.py: from the text of a docstring to its sections.             *)
(***************************************************************************)
\* the characters of the model's texts that \s and \w match
Whitespace == {" ", "\t", "\n"}
WordChars == set(<<"a", "b", "c", "d", "e", "f", "g", "h", "i", "j", "k", "l", "m", "n", "o", "p", "q", "r", "s", "t", "u", "v", "w", "x", "y", "z">>) \cup set(<<"A", "B", "C", "D", "E", "F", "G", "H", "I", "J", "K", "L", "M", "N", "O", "P", "Q", "R", "S", "T", "U", "V", "W", "X", "Y", "Z">>) \cup set(<<"_", "0", "1", "2", "3", "4", "5", "6", "7", "8", "9">>)

\* the longest run of characters of a class that starts at s[i]: its last index
RECURSIVE span(_, _, _)
span(s, i, class) == IF i <= Len(s) /\ s[i] \in class THEN span(s, i + 1, class) ELSE i - 1

\* str.splitlines for texts whose only line boundary is "\n"
RECURSIVE splitlines(_)
splitlines(s) ==
    IF s = <<>> THEN <<>>
    ELSE LET breaks == {i \in DOMAIN s : s[i] = "\n"}
         IN  IF breaks = {} THEN <<s>>
             ELSE LET i == CHOOSE b \in breaks : \A c \in breaks : b <= c
                  IN  <<SubSeq(s, 1, i - 1)>> \o splitlines(SubSeq(s, i + 1, Len(s)))

\* line.strip() is not empty
strip(line) == \E i \in DOMAIN line : line[i] \notin Whitespace

\* _SECTION_NAME_PATTERN.match(line): group(1), or None without a match
match_SECTION_NAME_PATTERN(line) ==
    LET first == span(line, 1, Whitespace) + 1
        last == span(line, first, WordChars)
    IN  IF first <= last /\ last < Len(line) /\ line[last + 1] = ":"
        THEN <<SubSeq(line, first, last)>>
        ELSE None

match_SUB_SECTION_PATTERN_mut(line) == None

\* _SUB_SECTION_PATTERN.match(line): group(1), or None without a match
match_SUB_SECTION_PATTERN(line) ==
    LET first == span(line, 1, Whitespace) + 1
        last == span(line, first, WordChars)
    IN  IF /\ first <= last
           /\ \/ last < Len(line) /\ line[last + 1] = ":"
              \/ /\ occurs_at(line, last + 1, <<" ", "(">>)
                 /\ \E k \in (last + 3)..(Len(line) - 1) :
                       /\ line[k] = ")"
                       /\ line[k + 1] = ":"
                       /\ \A j \in (last + 3)..(k - 1) : line[j] # "\n"
        THEN <<SubSeq(line, first, last)>>
        ELSE None

\* _SECTION_END_PATTERN.match(line) is not None
match_SECTION_END_PATTERN(line) == \A i \in DOMAIN line : line[i] \in Whitespace

RECURSIVE _get_sections_mut(_)
_get_sections_mut(lines) ==
    LET starts == {i \in DOMAIN lines : match_SECTION_NAME_PATTERN(lines[i]) # None}
    IN  IF starts = {} THEN <<>>
        ELSE LET start == CHOOSE i \in starts : \A j \in starts : i <= j
             IN  <<_Section(match_SECTION_NAME_PATTERN(lines[start]), <<>>)>>
                 \o _get_sections_mut(SubSeq(lines, start + 1, Len(lines)))

RECURSIVE _get_sections(_)
_get_sections(lines) ==
    LET starts == {i \in DOMAIN lines : strip(lines[i])}
    IN  IF starts = {} THEN <<>>
        ELSE LET start == CHOOSE i \in starts : \A j \in starts : i <= j
                 ends == {i \in (start + 1)..Len(lines) : match_SECTION_END_PATTERN(lines[i])}
                 end == IF ends = {} THEN Len(lines) + 1
                        ELSE CHOOSE i \in ends : \A j \in ends : i <= j
                 section_lines == SubSeq(lines, start + 1, end - 1)
                 sub_section_matches == [i \in DOMAIN section_lines |->
                                            match_SUB_SECTION_PATTERN(section_lines[i])]
                 found == SelectSeq(sub_section_matches, LAMBDA match : match # None)
             IN  <<_Section(match_SECTION_NAME_PATTERN(lines[start]),
                            [i \in DOMAIN found |-> found[i][1]])>>
                 \o _get_sections(SubSeq(lines, end + 1, Len(lines)))

parse(v) == parse_sections(_get_sections(splitlines(v)))

(***************************************************************************)
(* Texts: every sequence of at most MaxLines lines of a pool joined by     *)
(* "\n", and every text built of at most MaxSections blocks "name:", one   *)
(* indented "sub:" line per sub-entry (at most MaxSubs), blank line.       *)
(***************************************************************************)
MaxLines == 3

Lines == {<<>>, <<" ", "\t">>, <<"A", "r", "g", "s", ":">>, <<" ", " ">> \o <<"a", "t", "t", "r", "s", ":">> \o <<" ">> \o <<"a">>, <<"R", "a", "i", "s", "e", "s", ":">>, <<"F", "o", "o", ":">>, <<" ", " ", " ", " ">> \o <<"a", ":">>, <<"b">> \o <<" ", "(">> \o <<"x", ")", ":">>, <<"l", "i", "n", "e">> \o <<" ">> \o <<"1", ":">>}

SectionNames == {<<"A", "r", "g", "s">>, <<"P", "A", "R", "A", "M", "E", "T", "E", "R", "S">>, <<"R", "a", "i", "s", "e", "s">>}
SubNames == {<<"a">>, <<"b">>}

\* the text of the blocks of the given sections
RECURSIVE Blocks(_)
Blocks(secs) ==
    IF secs = <<>> THEN <<>>
    ELSE Head(secs).name[1] \o <<":", "\n">>
         \o join(<<>>, [i \in DOMAIN Head(secs).subs |->
                           <<" ", " ", " ", " ">> \o Head(secs).subs[i] \o <<":", "\n">>])
         \o <<"\n">> \o Blocks(Tail(secs))

\* sub-entries in which no name directly follows itself
SubEntries ==
    {subs \in UNION {[1..n -> SubNames] : n \in 0..MaxSubs} :
        \A i \in 1..(Len(subs) - 1) : subs[i] # subs[i + 1]}

\* sections in which no header word directly follows itself
NamedSections ==
    LET one == {_Section(<<name>>, subs) : name \in SectionNames, subs \in SubEntries}
    IN  {secs \in UNION {[1..n -> one] : n \in 0..MaxSections} :
            \A i \in 1..(Len(secs) - 1) : secs[i].name # secs[i + 1].name}

BuiltTexts == {Blocks(secs) : secs \in NamedSections}

Texts ==
    {join(<<"\n">>, lines) : lines \in UNION {[1..n -> Lines] : n \in 0..MaxLines}}
    \cup BuiltTexts

InitParse ==
    /\ docstr_value \in Texts
    /\ docstr_sections = <<>>
    /\ previous = None
    /\ docstr_info = Docstring(None, <<>>, None, <<>>, <<>>, <<>>, None, <<>>)
    /\ docstr_node = DocstrNode
    /\ args = arguments(<<>>)
    /\ return_nodes = <<>>
    /\ yield_nodes = <<>>
    /\ raise_nodes = <<>>
    /\ class_assign_nodes = <<>>
    /\ method_assign_nodes = <<>>
    /\ problems = <<>>
    /\ pc = "start"
    /\ NoRun

\* tuple(_get_sections(lines=value.splitlines()))
GetSections ==
    /\ pc = "start"
    /\ docstr_sections' = _get_sections(splitlines(docstr_value))
    /\ pc' = "sections"
    /\ UNCHANGED <<docstr_info, docstr_node, args, return_nodes, yield_nodes, raise_nodes,
                   class_assign_nodes, method_assign_nodes, problems, run_vars,
                   docstr_value, previous>>

\* docstring.parse(value)
Parse ==
    /\ pc = "start"
    /\ docstr_sections' = _get_sections(splitlines(docstr_value))
    /\ docstr_info' = parse(docstr_value)
    /\ pc' = "parsed"
    /\ UNCHANGED <<docstr_node, args, return_nodes, yield_nodes, raise_nodes,
                   class_assign_nodes, method_assign_nodes, problems, run_vars,
                   docstr_value, previous>>

NextParse == GetSections \/ Parse

SpecParse == InitParse /\ [][NextParse]_vars

(***************************************************************************)
(* What the text of a docstring says, read off its lines without the       *)
(* parser: a section starts at a non-blank line that is the first line or  *)
(* follows a blank line, and it reaches to the next blank line.            *)
(***************************************************************************)
Concerns == {"args", "attrs", "returns", "yields", "raises"}
NamedConcerns == {"args", "attrs", "raises"}

ConcernEntries(d, c) == CASE c = "args" -> d.args [] c = "attrs" -> d.attrs [] c = "raises" -> d.raises

ConcernHeaders(d, c) == CASE c = "args" -> d.args_sections [] c = "attrs" -> d.attrs_sections [] c = "returns" -> d.returns_sections [] c = "yields" -> d.yields_sections [] c = "raises" -> d.raises_sections

Blank(line) == \A i \in DOMAIN line : line[i] \in Whitespace

Indent(line) == span(line, 1, Whitespace)

\* the word of a line "<whitespace>word:...", None for any other line
HeaderWord(line) ==
    LET colons == {i \in DOMAIN line : line[i] = ":"}
        colon == CHOOSE i \in colons : \A j \in colons : i <= j
    IN  IF /\ colons # {}
           /\ Indent(line) + 1 < colon
           /\ \A i \in (Indent(line) + 1)..(colon - 1) : line[i] \in WordChars
        THEN <<SubSeq(line, Indent(line) + 1, colon - 1)>>
        ELSE None

\* the word of a line "<whitespace>word:..." or "<whitespace>word (...):..."
EntryWord(line) ==
    LET body == SubSeq(line, Indent(line) + 1, Len(line))
        spaces == {i \in DOMAIN body : body[i] = " "}
        space == CHOOSE i \in spaces : \A j \in spaces : i <= j
    IN  IF HeaderWord(line) # None THEN HeaderWord(line)
        ELSE IF /\ spaces # {}
                /\ space > 1
                /\ \A i \in 1..(space - 1) : body[i] \in WordChars
                /\ space < Len(body) /\ body[space + 1] = "("
                /\ \E k \in (space + 2)..(Len(body) - 1) : body[k] = ")" /\ body[k + 1] = ":"
        THEN <<SubSeq(body, 1, space - 1)>>
        ELSE None

IsStart(lines, i) == ~Blank(lines[i]) /\ (i = 1 \/ Blank(lines[i - 1]))


RECURSIVE Ascending(_)
Ascending(S) ==
    IF S = {} THEN <<>>
    ELSE LET least == CHOOSE i \in S : \A j \in S : i <= j
         IN  <<least>> \o Ascending(S \ {least})

\* the lines that start a section of the concern, in order
ConcernStarts(lines, c) ==
    Ascending({i \in DOMAIN lines :
                 /\ IsStart(lines, i)
                 /\ HeaderWord(lines[i]) # None
                 /\ lower(HeaderWord(lines[i])[1]) \in _SECTION_NAMES[c]})

\* the entry words of the section that starts at line i
EntriesAfter(lines, i) ==
    LET reach == {j \in (i + 1)..Len(lines) : \A k \in (i + 1)..j : ~Blank(lines[k])}
        found == Ascending({j \in reach : EntryWord(lines[j]) # None})
    IN  [k \in DOMAIN found |-> EntryWord(lines[found[k]])[1]]

\* C21: for args, attrs and raises the primary field of the parse result is
\* None exactly when the concern's section-headers tuple is empty, and a
\* concern whose first section is written without entries has the empty
\* tuple (not None) as primary field and at least one header.
C21_AbsentIffNoHeader ==
    pc = "parsed" =>
        LET lines == splitlines(docstr_value)
        IN  \A c \in NamedConcerns :
              LET starts == ConcernStarts(lines, c)
                  entries == ConcernEntries(docstr_info, c)
                  headers == ConcernHeaders(docstr_info, c)
              IN  /\ entries = None <=> headers = <<>>
                  /\ starts = <<>> <=> headers = <<>>
                  /\ (starts # <<>> /\ EntriesAfter(lines, starts[1]) = <<>>)
                        => (entries = << <<>> >> /\ Len(headers) >= 1)

C21_Witness ==
    /\ pc = "parsed"
    /\ docstr_value = <<"R", "a", "i", "s", "e", "s", ":">> \o <<"\n">> \o <<"l", "i", "n", "e">> \o <<" ">> \o <<"1", ":">>
    /\ docstr_info.raises = << <<>> >>
    /\ docstr_info.raises_sections = <<<<"R", "a", "i", "s", "e", "s">>>>
    /\ docstr_info.args = None
    /\ docstr_info.args_sections = <<>>

\* C22: when several sections match one concern, the entries are those of
\* the first matching section only and the section-headers tuple holds the
\* names of all matching sections in docstring order; two empty "Args:"
\* sections separated by a blank line give args = () and
\* args_sections = ("Args", "Args").
C22_FirstSectionEntriesAllHeaders ==
    pc = "parsed" =>
        LET lines == splitlines(docstr_value)
        IN  /\ \A c \in Concerns :
                  LET starts == ConcernStarts(lines, c)
                  IN  /\ ConcernHeaders(docstr_info, c)
                            = [k \in DOMAIN starts |-> HeaderWord(lines[starts[k]])[1]]
                      /\ (c \in NamedConcerns /\ starts # <<>>)
                            => ConcernEntries(docstr_info, c) = <<EntriesAfter(lines, starts[1])>>
            /\ lines = <<<<"A", "r", "g", "s", ":">>, <<>>, <<"A", "r", "g", "s", ":">>>> =>
                  /\ docstr_info.args = << <<>> >>
                  /\ docstr_info.args_sections = <<<<"A", "r", "g", "s">>, <<"A", "r", "g", "s">>>>

C22_Witness ==
    /\ pc = "parsed"
    /\ docstr_value = Blocks(<<_Section(<<<<"A", "r", "g", "s">>>>, <<<<"a">>>>), _Section(<<<<"P", "A", "R", "A", "M", "E", "T", "E", "R", "S">>>>, <<<<"b">>, <<"a">>>>)>>)
    /\ docstr_info.args = << <<<<"a">>>> >>
    /\ docstr_info.args_sections = <<<<"A", "r", "g", "s">>, <<"P", "A", "R", "A", "M", "E", "T", "E", "R", "S">>>>

Variants == [args |-> {<<"A", "R", "G", "U", "M", "E", "N", "T", "S">>, <<"p", "a", "r", "a", "m", "e", "t", "e", "r", "s">>}, attrs |-> {<<"A", "t", "t", "r", "s">>, <<"a", "t", "t", "r", "i", "b", "u", "t", "e", "s">>}, returns |-> {<<"R", "e", "t", "u", "r", "n">>, <<"R", "E", "T", "U", "R", "N", "S">>}, yields |-> {<<"y", "i", "e", "l", "d">>, <<"Y", "i", "e", "l", "d", "s">>}, raises |-> {<<"r", "a", "i", "s", "e">>, <<"R", "a", "i", "s", "e", "s">>}]

\* the lines with the header of the sections that start at the given lines
\* written as w
RECURSIVE Rewritten(_, _, _)
Rewritten(lines, starts, w) ==
    IF lines = <<>> THEN <<>>
    ELSE LET line == lines[Len(lines)]
         IN  Rewritten(SubSeq(lines, 1, Len(lines) - 1), starts, w)
             \o <<IF Len(lines) \in starts
                   THEN SubSeq(line, 1, Indent(line)) \o w
                        \o SubSeq(line, Indent(line) + Len(HeaderWord(line)[1]) + 1, Len(line))
                   ELSE line>>

\* C23: writing the headers of a concern with another synonym or letter
\* case leaves the concern's entries as they are, the section-headers tuple
\* holds the header words as written, and a docstring none of whose
\* sections has a header word of the synonym table parses to the empty
\* result.
C23_SynonymsAndCase ==
    pc = "parsed" =>
        LET lines == splitlines(docstr_value)
        IN  /\ \A c \in Concerns :
                  LET starts == ConcernStarts(lines, c)
                      entries == IF c \in NamedConcerns THEN ConcernEntries(docstr_info, c) ELSE None
                      headers == ConcernHeaders(docstr_info, c)
                  IN  /\ headers = [k \in DOMAIN starts |-> HeaderWord(lines[starts[k]])[1]]
                      /\ starts # <<>> =>
                            \A w \in Variants[c] :
                                LET other == parse_sections(
                                                _get_sections(Rewritten(lines, set(starts), w)))
                                IN  /\ c \in NamedConcerns => ConcernEntries(other, c) = entries
                                    /\ ConcernHeaders(other, c) = [k \in DOMAIN headers |-> w]
            /\ (\A c \in Concerns : ConcernStarts(lines, c) = <<>>)
                  => docstr_info = Docstring(None, <<>>, None, <<>>, <<>>, <<>>, None, <<>>)

C23_Witness ==
    /\ pc = "parsed"
    /\ splitlines(docstr_value) = <<<<" ", " ">> \o <<"a", "t", "t", "r", "s", ":">> \o <<" ">> \o <<"a">>, <<"b">> \o <<" ", "(">> \o <<"x", ")", ":">>, <<"F", "o", "o", ":">>>>
    /\ docstr_info.attrs = << <<<<"b">>, <<"F", "o", "o">>>> >>
    /\ docstr_info.attrs_sections = <<<<"a", "t", "t", "r", "s">>>>
    /\ docstr_info.args = None

HeaderAfterHeader(lines, i) ==
    /\ i < Len(lines)
    /\ IsStart(lines, i)
    /\ HeaderWord(lines[i]) # None
    /\ HeaderWord(lines[i + 1]) # None

\* C25 as claimed: a header-looking line that immediately follows another
\* header-looking line starts a new section: the first line gives a section
\* without sub-entries and the second line's word names a second section.
C25_AsClaimed ==
    pc = "sections" =>
        LET lines == splitlines(docstr_value)
        IN  \A i \in DOMAIN lines :
              HeaderAfterHeader(lines, i) =>
                  \E k \in 1..(Len(docstr_sections) - 1) :
                      /\ docstr_sections[k] = _Section(HeaderWord(lines[i]), <<>>)
                      /\ docstr_sections[k + 1].name = HeaderWord(lines[i + 1])

\* C25: a header-looking line that immediately follows the header line of a
\* section starts no section: its word is the first sub-entry of that
\* section, and there are as many sections as non-blank lines that are the
\* first line or follow a blank line.
C25_HeaderAfterHeaderIsSubEntry ==
    pc = "sections" =>
        LET lines == splitlines(docstr_value)
            starts == {j \in DOMAIN lines : IsStart(lines, j)}
        IN  /\ Len(docstr_sections) = Cardinality(starts)
            /\ \A i \in DOMAIN lines :
                  HeaderAfterHeader(lines, i) =>
                      LET section == docstr_sections[Cardinality({j \in starts : j <= i})]
                      IN  /\ section.name = HeaderWord(lines[i])
                          /\ section.subs # <<>>
                          /\ section.subs[1] = HeaderWord(lines[i + 1])[1]

C25_Witness ==
    /\ pc = "sections"
    /\ docstr_value = <<"A", "r", "g", "s", ":">> \o <<"\n">> \o <<"R", "a", "i", "s", "e", "s", ":">>
    /\ docstr_sections = <<_Section(<<<<"A", "r", "g", "s">>>>, <<<<"R", "a", "i", "s", "e", "s">>>>)>>


(***************************************************************************)
(* Running the plugin a second time on the same tree and file name.        *)
(***************************************************************************)
Visitor_init_mut(carried) == carried

\* Visitor.__init__: self.problems = [], whatever an earlier visitor held
Visitor_init(carried) == <<>>

\* the inputs of the runs that are repeated
MaxRerunBody == 2
RerunFilenames == {<<"a", ".", "p", "y">>, <<"t", "e", "s", "t", "_", "a", ".", "p", "y">>}

InitRerun ==
    /\ InitRun
    /\ \/ tree \in ClassModules
       \/ tree \in FunctionModules /\ Len(tree.body[1].body) <= MaxRerunBody
       \/ tree \in DecoratedModules /\ filename \in RerunFilenames

\* a second Plugin.run on the same plugin object, up to visitor.visit: a new
\* Visitor is built from the same tree, file name and patterns
PluginRunAgain ==
    /\ pc = "done"
    /\ previous = None
    /\ previous' = <<problems>>
    /\ problems' = Visitor_init(problems)
    /\ file_type' = _get_file_type(filename)
    /\ todo' = <<tree>>
    /\ pc' = "visit"
    /\ UNCHANGED <<docstr_info, docstr_node, args, return_nodes, yield_nodes, raise_nodes,
                   class_assign_nodes, method_assign_nodes, tree, filename, parse_vars>>

NextRerun == NextRun \/ PluginRunAgain

SpecRerun == InitRerun /\ [][NextRerun]_vars

IsMethod(d) ==
    \E c \in set(Definitions) : c.type = "ClassDef" /\ d \in set(c.body)

ClaimedParameters(a, method) ==
    SelectSeq(a.args, LAMBDA arg : ~(method /\ arg.arg \in SKIP_ARGS))
        \o SelectSeq(a.posonlyargs, LAMBDA arg : ~(method /\ arg.arg \in SKIP_ARGS))
        \o a.kwonlyargs
        \o a.vararg
        \o a.kwarg

C28_NestedInSkippedEvaluated ==
    pc = "done" =>
        LET defs == Definitions
            owners == Owners
        IN  \A i, j \in DOMAIN defs :
                (Skipped(defs[i]) /\ defs[j] \in set(defs[i].body)) =>
                    IF Skipped(defs[j]) THEN OwnedBy(owners, j) = {}
                    ELSE ~LeadingString(defs[j]) =>
                            /\ OnlyFinding(owners, j, DocstringMissingAt(defs[j]))
                            /\ Count(problems, DocstringMissingAt(defs[j])) = 1

C28_Witness ==
    /\ pc = "done"
    /\ filename = <<"t", "e", "s", "t", "_", "a", ".", "p", "y">>
    /\ tree.body[1].type = "AsyncFunctionDef"
    /\ tree.body[1].name = test_foo
    /\ tree.body[1].decorator_list = <<>>
    /\ Len(tree.body[1].body) = 1
    /\ tree.body[1].body[1].type = "FunctionDef"
    /\ tree.body[1].body[1].name = <<"b", "a", "r">>
    /\ problems = <<DocstringMissingAt(tree.body[1].body[1])>>

(***************************************************************************)
(* attrs.py: the visitor that collects the fields of a class.              *)
(***************************************************************************)
RECURSIVE is_property_decorator(_)
is_property_decorator(node) ==
    IF node.type = "Name"
    THEN node.id \in {<<"p", "r", "o", "p", "e", "r", "t", "y">>,
                      <<"c", "a", "c", "h", "e", "d", "_", "p", "r", "o", "p", "e", "r", "t", "y">>}
    ELSE IF node.type = "Call" THEN is_property_decorator(node.func)
    ELSE IF node.type = "Attribute"
    THEN /\ node.attr = <<"c", "a", "c", "h", "e", "d", "_", "p", "r", "o", "p", "e", "r", "t", "y">>
         /\ node.value.type = "Name"
         /\ node.value.id = <<"f", "u", "n", "c", "t", "o", "o", "l", "s">>
    ELSE FALSE

\* types_.Node(lineno=node.lineno, col_offset=node.col_offset, name=node.name)
property_node(node) ==
    [type |-> "Node", name |-> node.name, lineno |-> node.lineno, col_offset |-> node.col_offset]

\* attrs.VisitorWithinClass.visit on the nodes of a class's body: the class
\* nodes (in_method FALSE) or the method nodes (in_method TRUE) recorded.
\* top_level is _visited_top_level.  visit_any_function records a
\* property-decorated function before visit_top_level looks at the flag;
\* visit_once has been used up by the class itself.
RECURSIVE VisitorWithinClass(_, _, _)
VisitorWithinClass(in_method, top_level, nodes) ==
    IF nodes = <<>> THEN <<>>
    ELSE LET node == Head(nodes)
         IN  (IF node.type \in {"Assign", "AnnAssign", "AugAssign"}
              THEN IF in_method = top_level THEN <<node>> ELSE <<>>
              ELSE IF node.type \in FunctionTypes
              THEN (IF /\ ~in_method
                       /\ \E i \in DOMAIN node.decorator_list :
                              is_property_decorator(node.decorator_list[i])
                    THEN <<property_node(node)>>
                    ELSE <<>>)
                   \o (IF top_level THEN <<>>
                       ELSE VisitorWithinClass(in_method, TRUE, node.body))
              ELSE IF node.type = "ClassDef" THEN <<>>
              ELSE VisitorWithinClass(in_method, top_level, child_nodes(node)))
             \o VisitorWithinClass(in_method, top_level, Tail(nodes))

\* the statements of a class body: assignments, property-style methods in
\* the three decorator forms, a method with another decorator, methods with
\* a property-decorated function in their body, a nested class with one
PropertyItems(l, c) ==
    LET property == <<Name(<<"p", "r", "o", "p", "e", "r", "t", "y">>, l - 1)>>
        called == <<Call(AttributeOf(NameAt(<<"f", "u", "n", "c", "t", "o", "o", "l", "s">>, l - 1, 1),
                                     <<"c", "a", "c", "h", "e", "d", "_", "p", "r", "o", "p", "e", "r", "t", "y">>), l - 1)>>
        cached == <<Name(<<"c", "a", "c", "h", "e", "d", "_", "p", "r", "o", "p", "e", "r", "t", "y">>, l - 1)>>
        other == <<AttributeOf(NameAt(module, l - 1, 1), <<"p", "r", "o", "p", "e", "r", "t", "y">>)>>
        inner == <<Name(<<"p", "r", "o", "p", "e", "r", "t", "y">>, l + 2)>>
    IN  {Assign(<<NameAt(attr_1, l, c)>>),
         FunctionDef("FunctionDef", attr_1, property, <<self>>, <<Return(None, l + 1, c + 4)>>, l, c),
         FunctionDef("AsyncFunctionDef", attr_2, called, <<self>>, <<Return(None, l + 1, c + 4)>>, l, c),
         FunctionDef("FunctionDef", _attr_3, cached, <<self>>, <<Return(None, l + 1, c + 4)>>, l, c),
         FunctionDef("FunctionDef", attr_2, other, <<self>>, <<Return(None, l + 1, c + 4)>>, l, c),
         FunctionDef("FunctionDef", <<"b", "a", "r">>, <<>>, <<self>>,
                     <<Assign(<<AttributeOf(NameAt(self, l + 1, c + 4), attr_2)>>),
                       FunctionDef("FunctionDef", attr_x, inner, <<self>>,
                                   <<Return(None, l + 4, c + 8)>>, l + 3, c + 4)>>, l, c),
         FunctionDef("FunctionDef", <<"b", "a", "r">>, <<>>, <<self>>,
                     <<FunctionDef("FunctionDef", attr_1, inner, <<>>,
                                   <<Return(None, l + 4, c + 8)>>, l + 3, c + 4)>>, l, c),
         ClassDef(<<"b", "a", "z">>,
                  <<FunctionDef("FunctionDef", attr_1, inner, <<self>>,
                                <<Return(None, l + 4, c + 8)>>, l + 3, c + 4)>>, l, c)}

PropertyBodies(n) ==
    { items \in [1..n -> UNION {PropertyItems(10 * i, 4) : i \in 1..n}] :
        \A i \in 1..n : items[i] \in PropertyItems(10 * i, 4) }

PropertyClasses ==
    { ClassDef(<<"f", "o", "o">>, <<Expr(Constant(Str(sections), 2, 4))>> \o body, 1, 0) :
        sections \in {Doc.Plain, Doc.Attrs, Doc.Attributes},
        body \in UNION {PropertyBodies(n) : n \in 0..MaxBody} }

InitClass ==
    /\ \E class \in PropertyClasses : tree = [type |-> "Module", body |-> <<class>>]
    /\ filename = <<"a", ".", "p", "y">>
    /\ file_type = "default"
    /\ todo = <<>>
    /\ docstr_info = Docstring(None, <<>>, None, <<>>, <<>>, <<>>, None, <<>>)
    /\ docstr_node = DocstrNode
    /\ args = arguments(<<>>)
    /\ return_nodes = <<>>
    /\ yield_nodes = <<>>
    /\ raise_nodes = <<>>
    /\ class_assign_nodes = <<>>
    /\ method_assign_nodes = <<>>
    /\ problems = <<>>
    /\ pc = "class"
    /\ NoParse

\* the class with a docstring is parsed and visited by attrs.VisitorWithinClass
VisitWithinClass ==
    /\ pc = "class"
    /\ LET node == tree.body[1]
       IN  /\ docstr_info' = parse_sections(Head(node.body).value.value.sections)
           /\ docstr_node' = Head(node.body).value
           /\ class_assign_nodes' = VisitorWithinClass(FALSE, FALSE, node.body)
           /\ method_assign_nodes' = VisitorWithinClass(TRUE, FALSE, node.body)
    /\ pc' = "start"
    /\ UNCHANGED <<args, return_nodes, yield_nodes, raise_nodes, problems, run_vars,
                   parse_vars, previous>>

NextClass == VisitWithinClass \/ CheckAttrs

SpecClass == InitClass /\ [][NextClass]_vars

\* the property-decorated functions that are statements of the class body
DirectProperties ==
    LET body == tree.body[1].body
    IN  SelectSeq(body, LAMBDA d : /\ d.type \in FunctionTypes
                                   /\ \E i \in DOMAIN d.decorator_list :
                                          is_property_decorator(d.decorator_list[i]))

\* C30: the property-style fields recorded for a class are its own
\* property-decorated methods and nothing else: a property-decorated
\* function inside a method body or inside a nested class is not recorded,
\* yields no item-missing finding, and does not make the attrs section
\* required or an entry valid.
C30_OnlyDirectMethodsAreFields ==
    pc = "attrs" =>
        LET direct == DirectProperties
            fields == [i \in DOMAIN direct |-> property_node(direct[i])]
            claimed == SelectSeq(class_assign_nodes,
                                 LAMBDA n : n.type = "Node" => n \in set(fields))
        IN  /\ SelectSeq(class_assign_nodes, LAMBDA n : n.type = "Node") = fields
            /\ problems = attrs_check(docstr_info, docstr_node, claimed, method_assign_nodes)

C30_Witness ==
    /\ pc = "attrs"
    /\ Len(tree.body[1].body) = 2
    /\ tree.body[1].body[2].type = "FunctionDef"
    /\ tree.body[1].body[2].decorator_list = <<>>
    /\ Len(tree.body[1].body[2].body) = 1
    /\ tree.body[1].body[2].body[1].type = "FunctionDef"
    /\ tree.body[1].body[2].body[1].name = attr_1
    /\ docstr_info.attrs = None
    /\ class_assign_nodes = <<property_node(tree.body[1].body[2].body[1])>>
    /\ problems = <<at_docstr(docstr_node, ATTRS_SECTION_NOT_IN_DOCSTR_MSG)>>

(***************************************************************************)
(* Raises whose operand names no exception, checked under SpecRaises.      *)
(***************************************************************************)
OtherOperand(node) == ~IsBareReRaise(node) /\ NamesNoException(node)

AsReRaise(node) == IF OtherOperand(node) THEN [node EXCEPT !.exc = None] ELSE node

\* C29: a raise whose operand is neither a name, a dotted attribute nor a
\* call of one is treated like a bare re-raise.  With such a raise in the
\* function the findings are those of the same function with these raises
\* written as bare re-raises: section-missing is yielded without the section,
\* section-unexpected and item-unexpected never, item-missing only at raises
\* that name an exception, and re-raise-without-named-exception when no raise
\* names an exception and the section is absent or empty.
C29_UnnamedOperandAsReRaise ==
    (pc = "raises" /\ \E i \in DOMAIN raise_nodes : OtherOperand(raise_nodes[i])) =>
        LET bare == [i \in DOMAIN raise_nodes |-> AsReRaise(raise_nodes[i])]
        IN  /\ problems = raises_check(docstr_info, docstr_node, bare)
            /\ ~RaisesSectionPresent => Count(problems, AtDocstring("DCO050", <<>>)) = 1
            /\ Findings("DCO051") = <<>>
            /\ Findings("DCO054") = <<>>
            /\ \A k \in DOMAIN problems :
                  problems[k].msg.code = "DCO053" =>
                      \E i \in DOMAIN raise_nodes :
                          /\ ~NamesNoException(raise_nodes[i])
                          /\ problems[k].lineno = raise_nodes[i].lineno
            /\ ((\A i \in DOMAIN raise_nodes : NamesNoException(raise_nodes[i]))
                    /\ (~RaisesSectionPresent \/ RaisesEntries = <<>>))
                  => Count(problems, AtDocstring("DCO055", <<>>)) = 1

C29_Witness ==
    /\ pc = "raises"
    /\ Len(raise_nodes) = 2
    /\ raise_nodes[1].exc = <<Call(Lambda(3), 3)>>
    /\ raise_nodes[2].exc = <<Name(Exc2, 4)>>
    /\ RaisesEntries = <<Exc3, Exc1>>
    /\ problems = <<[lineno |-> 4, col_offset |-> 10,
                     msg |-> [code |-> "DCO053", arg |-> Exc2]]>>
====
